---- MODULE Spec2Model ----
(***************************************************************************)
(* Model of the transaction orchestration engine of the banking backend:   *)
(*   - the in-memory pending-transaction store and its expiry timers       *)
(*     (services/pendingTransactions.js),                                  *)
(*   - the verify-transaction route (routes/verifyTransaction.js) and the  *)
(*     executors it dispatches to,                                         *)
(*   - the ledger executor initiateTransfer (services/database.js),        *)
(*   - load-money and self-purchase airtime, which write balances too,     *)
(*   - the NUBAN checksum and the account verification built on it         *)
(*     (services/bankVerification.js),                                     *)
(*   - the recipient search searchBeneficiaries (services/database.js)     *)
(*     over the rows it reads, with the operations that write them.        *)
(* Every await of the JavaScript code is a step boundary: a request        *)
(* handler is a process whose pc names the await it is suspended on.       *)
(* A prisma.$transaction block reads committed data and its writes become  *)
(* visible to other handlers atomically at commit (PostgreSQL, README).    *)
(***************************************************************************)
EXTENDS Integers, Sequences, FiniteSets, TLC

\* ------------------------------------------------------------------ bounds
MaxAmount == 2        \* amounts are drawn from 1..MaxAmount
InitBalance == 2      \* opening balance of the sender's first account
MaxCalls == 2         \* ledger operations (executor runs, loads) started in one behaviour
MaxPending == 2       \* number of pending transactions created in one behaviour
MaxAccountRows == 5   \* rows of the Account table, the four initial ones included

Procs == {"p1", "p2"}                 \* concurrently served requests
Amounts == 1..MaxAmount
PendingIds == 1..MaxPending

\* Account numbers: A1, A2 belong to customer 1, A3 to customer 2, N3 is the
\* accountNumber of customer 3, who has no account row; X1 is outside the system.
SystemAccountNumber == "0000000000"
SystemPhone == "SYSTEM_EXTERNAL"

VARIABLES
  customer,             \* Customer table: sequence of rows, id = index
  account,              \* Account table: sequence of rows, id = index
  transaction,          \* Transaction (ledger) table: sequence of rows
  beneficiary,          \* Beneficiary table: sequence of rows, id = index
  pendingTransactions,  \* the Map of pendingTransactions.js: id -> entry or NoTxn
  object,               \* the entry objects the Map and the handlers refer to:
                        \* id -> fields as they are now, in the Map or not
  nextTxnId,            \* ids handed out by generateTransactionId so far
  timerArmed,           \* ids whose 15-minute setTimeout has not fired yet
  pc,                   \* per handler: the await it is suspended on
  loc,                  \* per handler: its local variables
  nextCall,             \* number of money movements started so far
  outcome,              \* per money movement: what it was and how it ended (history)
  nuban,                \* the call of validateNUBAN or detectPossibleBanks under
                        \* study: its arguments and what it returned
  verification,         \* the call of verifyAccount: where it is, the calls of
                        \* verifyWithPaystack it made so far and its outcome
  directory,            \* what searchBeneficiaries reads for one sender and one
                        \* name: the matching saved beneficiaries, the other
                        \* customers with their accounts, the sender's debit rows
  search                \* the call of searchBeneficiaries: where it is, results
                        \* and seenAccounts

vars == <<customer, account, transaction, beneficiary, pendingTransactions,
          object, nextTxnId, timerArmed, pc, loc, nextCall, outcome,
          nuban, verification, directory, search>>

dbVars == <<customer, account, transaction, beneficiary>>
storeVars == <<pendingTransactions, object, nextTxnId, timerArmed>>
bankVars == <<nuban, verification>>
searchVars == <<directory, search>>

NoTxn == [type |-> "none"]

\* ------------------------------------------------------------- the database
DB == [customer |-> customer, account |-> account,
       transaction |-> transaction, beneficiary |-> beneficiary]

\* prisma.account.findFirst({where: {accountNumber}}): id of the row, 0 for null
FindAccountByNumber(acc, n) ==
  LET S == {i \in 1..Len(acc) : acc[i].accountNumber = n}
  IN IF S = {} THEN 0 ELSE CHOOSE i \in S : \A j \in S : i <= j

\* prisma.account.findFirst({where: {customerId}}): id of the row, 0 for null
FindAccountByCustomer(acc, c) ==
  LET S == {i \in 1..Len(acc) : acc[i].customerId = c}
  IN IF S = {} THEN 0 ELSE CHOOSE i \in S : \A j \in S : i <= j

\* prisma.account.findFirst({where: {accountNumber, customerId}})
FindAccountByNumberAndCustomer(acc, n, c) ==
  LET S == {i \in 1..Len(acc) : acc[i].accountNumber = n /\ acc[i].customerId = c}
  IN IF S = {} THEN 0 ELSE CHOOSE i \in S : \A j \in S : i <= j

\* prisma.customer.findFirst({where: {accountNumber}})
FindCustomerByNumber(cus, n) ==
  LET S == {i \in 1..Len(cus) : cus[i].accountNumber = n}
  IN IF S = {} THEN 0 ELSE CHOOSE i \in S : \A j \in S : i <= j

\* prisma.customer.findFirst({where: {phoneNumber}})
FindCustomerByPhone(cus, ph) ==
  LET S == {i \in 1..Len(cus) : cus[i].phoneNumber = ph}
  IN IF S = {} THEN 0 ELSE CHOOSE i \in S : \A j \in S : i <= j

\* The reference string a call generates for its row of one type; a call
\* generates its references afresh (Date.now() and Math.random()).
Reference(call, type) == <<call, type>>
NoReference == <<0, "none">>

\* A ledger row.  call is history: the request that wrote the row.
Row(call, cust, acct, amount, before, after, type) ==
  [call |-> call, customerId |-> cust, accountId |-> acct, amount |-> amount,
   balanceBefore |-> before, balanceAfter |-> after, transactionType |-> type,
   reference |-> Reference(call, type)]

\* Decimal + number in JavaScript: Decimal.valueOf() is a string, so + is
\* string concatenation ("20" + 1 = "201"), which prisma stores as a Decimal.
RECURSIVE Shift(_)
Shift(n) == IF n < 10 THEN 10 ELSE 10 * Shift(n \div 10)

DecimalPlusNumber(d, n) == d * Shift(n) + n

\* transfer.js 629-688: what the two functions read of a reply: the 4-digit
\* runs it contains, what the first match of (\d+)|(first|...|fifth) is and
\* its value, whether a word one..five occurs, and whether more than 40% of
\* its characters are other than letters, digits and spaces.
Message(endings, lead, number, word, cardinal, noisy) ==
  [endings |-> endings, lead |-> lead, number |-> number, word |-> word,
   cardinal |-> cardinal, noisy |-> noisy]

\* No reply.
NoMessage == Message({}, "unset", 0, 0, FALSE, FALSE)

\* transfer.js 359-365: what handleAccountSelection reads of a reply: the
\* first four digits of its first run of four or more digits ("" if it has
\* none), what the leftmost match of (\d+)|(first|...|fifth|one|...|five) is
\* ("digits", "word" or "none"), the value of the digits, and which of the
\* ten words the lower-cased reply contains.
AccountReply(run, lead, number, contained) ==
  [run |-> run, lead |-> lead, number |-> number, contained |-> contained]

\* No reply.
NoAccountReply == AccountReply("", "unset", 0, {})

\* ------------------------------------------------------- handler locals
NoLoc == [call |-> 0, kind |-> "none", txn |-> 0, cust |-> 0, type |-> "none",
          acct |-> 0, amount |-> 0, rcpt |-> "-", benId |-> 0, target |-> 0,
          bal |-> 0, rAcct |-> 0, rBal |-> 0, rCust |-> 0, plAcct |-> 0,
          sysCust |-> 0, extAcct |-> 0, obj |-> NoTxn, result |-> "none",
          ref |-> NoReference, found |-> << >>, pick |-> 0, msg |-> NoMessage,
          senderReference |-> NoReference, recipientReference |-> NoReference,
          reply |-> NoAccountReply]

Senders == {1}                        \* customers that start money movements
Callers == {1, 2}                     \* customers that call verify-transaction

\* What a transfer can be addressed to: <<account number, beneficiary id>>.
\* Beneficiary 1 is customer 1's saved beneficiary for A3; 0 stands for null.
Recipients == {<<"A3", 0>>, <<"A3", 1>>, <<"N3", 0>>, <<"X1", 0>>}

\* No call of validateNUBAN or detectPossibleBanks yet.
NoCall == [fn |-> "none", accountNumber |-> << >>, bankCode |-> << >>,
           valid |-> FALSE, banks |-> << >>, original |-> << >>,
           originalBanks |-> << >>]

\* No bank code given to verifyAccount; no call of verifyAccount yet.
NoBankCode == << >>

NoVerification == [pc |-> "idle", accountNumber |-> << >>, bankCode |-> NoBankCode,
                   possibleBanks |-> << >>, calls |-> << >>, lastError |-> "null",
                   result |-> "none", details |-> << >>, thrown |-> "none"]

\* The rows searchBeneficiaries reads for the sender and the name searched:
\* customer 1 is registered with bank "GTB" and has no account row (as
\* customer 3 of the Customer table above); the sender has one saved
\* beneficiary.  Account numbers are numbers here, "null" is a null bankName.
NoDirectory ==
  [customers |-> << [accountNumber |-> 1, bankName |-> "GTB", accounts |-> << >>] >>,
   beneficiaries |-> << [accountNumber |-> 0, bankName |-> "GTB"] >>,
   transactions |-> << >>]

\* No call of searchBeneficiaries yet.
NoSearch == [pc |-> "idle", results |-> << >>, seenAccounts |-> {}]

Init ==
  /\ customer = << [phoneNumber |-> "P1", accountNumber |-> "A1"],
                   [phoneNumber |-> "P2", accountNumber |-> "A3"],
                   [phoneNumber |-> "P3", accountNumber |-> "N3"],
                   [phoneNumber |-> "P4", accountNumber |-> "A4"] >>
  /\ account = << [customerId |-> 1, accountNumber |-> "A1", balance |-> InitBalance],
                  [customerId |-> 1, accountNumber |-> "A2", balance |-> 0],
                  [customerId |-> 2, accountNumber |-> "A3", balance |-> 0],
                  [customerId |-> 4, accountNumber |-> "A4", balance |-> InitBalance] >>
  /\ transaction = << >>
  /\ beneficiary = << [customerId |-> 1, accountNumber |-> "A3", transferCount |-> 0] >>
  /\ pendingTransactions = [i \in PendingIds |-> NoTxn]
  /\ object = [i \in PendingIds |-> NoTxn]
  /\ nextTxnId = 1
  /\ timerArmed = {}
  /\ pc = [p \in Procs |-> "idle"]
  /\ loc = [p \in Procs |-> NoLoc]
  /\ nextCall = 1
  /\ outcome = << >>
  /\ nuban = NoCall
  /\ verification = NoVerification
  /\ directory = NoDirectory
  /\ search = NoSearch

\* ------------------------------------------- the pending-transaction store
\* createPendingTransaction: a fresh id, the entry, and a 15-minute timer.
createPendingTransaction(entry) ==
  /\ nextTxnId <= MaxPending
  /\ pendingTransactions' = [pendingTransactions EXCEPT ![nextTxnId] = entry]
  /\ object' = [object EXCEPT ![nextTxnId] = entry]
  /\ timerArmed' = timerArmed \cup {nextTxnId}
  /\ nextTxnId' = nextTxnId + 1

getPendingTransaction(id) == pendingTransactions[id]

deletePendingTransaction(store, id) == [store EXCEPT ![id] = NoTxn]

\* An entry of the store.  accounts and beneficiaries are the lists a selection
\* stage offers; input tells whether the request named an account number or a
\* person; seenBalance is the balance the request checked (sourceAccount.balance).
Entry(type, cust, acct, amount, rcpt, benId, target, seen) ==
  [type |-> type, customerId |-> cust, status |-> "pending_pin", accountId |-> acct,
   amount |-> amount, rcpt |-> rcpt, benId |-> benId, target |-> target,
   seenBalance |-> seen, accounts |-> << >>, beneficiaries |-> << >>,
   input |-> "-"]

\* The accounts getAccountBalance returns for a customer, oldest first.
AccountsOf(c) == {i \in 1..Len(account) : account[i].customerId = c}
FirstAccountOf(c) == FindAccountByCustomer(account, c)

\* The transfer flow reaching 'pending_pin': the source account is the only
\* account, or the one selected, and its balance as listed covers the amount.
TransferRequest(c, a, amt, r) ==
  /\ a \in AccountsOf(c)
  /\ ~(account[a].balance < amt)
  /\ createPendingTransaction(
       Entry("transfer", c, a, amt, r[1], r[2], 0, account[a].balance))
  /\ UNCHANGED <<searchVars, bankVars, dbVars, pc, loc, nextCall, outcome>>

\* The account numbers a manual transfer is addressed to.
ReceiverAccountNumbers == {"A2", "A3", "N3", "X1"}

\* POST /api/manual-transfer: the source account is the customer's and covers
\* the amount, the receiver number differs from the source number; the entry
\* is created in 'pending_pin' and its beneficiary.id is the id of the
\* customer who owns the receiver account, null when no account has the number.
ManualTransferRequest(c, a, n, amt) ==
  LET receiverAccount == FindAccountByNumber(account, n)
      id == IF receiverAccount = 0 THEN 0 ELSE account[receiverAccount].customerId
  IN
  /\ a \in AccountsOf(c)
  /\ account[a].accountNumber # n
  /\ ~(account[a].balance < amt)
  /\ createPendingTransaction(
       [Entry("transfer", c, a, amt, n, id, 0, account[a].balance)
          EXCEPT !.input = "manual_transfer"])
  /\ UNCHANGED <<searchVars, bankVars, dbVars, pc, loc, nextCall, outcome>>

\* The internal-transfer flow reaching 'pending_pin': the source is the
\* customer's first account, the target another account of the customer.
InternalTransferRequest(c, t, amt) ==
  LET s == FirstAccountOf(c) IN
  /\ Cardinality(AccountsOf(c)) > 1
  /\ ~(account[s].balance < amt)
  /\ t \in AccountsOf(c)
  /\ t # s
  /\ createPendingTransaction(
       Entry("internal_transfer", c, s, amt, "-", 0, t, account[s].balance))
  /\ UNCHANGED <<searchVars, bankVars, dbVars, pc, loc, nextCall, outcome>>

\* Airtime for another phone number: debits the first account after the PIN.
AirtimeRequest(c, amt) ==
  LET a == FirstAccountOf(c) IN
  /\ a # 0
  /\ ~(account[a].balance < amt)
  /\ createPendingTransaction(
       Entry("airtime", c, a, amt, "-", 0, 0, account[a].balance))
  /\ UNCHANGED <<searchVars, bankVars, dbVars, pc, loc, nextCall, outcome>>

\* The setTimeout callback of createPendingTransaction.
ExpireTimer(id) ==
  /\ id \in timerArmed
  /\ timerArmed' = timerArmed \ {id}
  /\ pendingTransactions' = deletePendingTransaction(pendingTransactions, id)
  /\ UNCHANGED <<searchVars, bankVars, dbVars, object, nextTxnId, pc, loc, nextCall, outcome>>

\* ------------------------------------------------ request bookkeeping
\* A money movement starts: it gets the next call number, which tags the
\* ledger rows it writes, and what it is; Finish records how call k ended.
Begin(kind, txn, acct, amount) ==
  /\ nextCall <= MaxCalls
  /\ nextCall' = nextCall + 1
  /\ outcome' = Append(outcome, [kind |-> kind, txn |-> txn, acct |-> acct,
                                 amount |-> amount, result |-> "running"])

Finish(k, r) == [outcome EXCEPT ![k].result = r]

\* How often an executor was entered for pending transaction id.
ExecCount(id) == Cardinality({k \in 1..Len(outcome) : outcome[k].txn = id})

\* ------------------------------------------------------ initiateTransfer
\* (mutant) the debit row records the whole balance as the amount
DebitRowOfBalance(D, l) ==
  [D EXCEPT !.transaction = Append(@,
     [Row(l.call, l.cust, l.acct, l.bal, l.bal, l.bal - l.amount, "debit")
        EXCEPT !.reference = l.senderReference])]

\* The writes of the $transaction block of initiateTransfer, in program order;
\* Writes(D, l, k) is the database after the first k of them:
\*   1 debit row, 2 sender balance, 3 credit target, 4 credit row, 5 beneficiary.
DebitRow(D, l) ==
  [D EXCEPT !.transaction = Append(@,
     [Row(l.call, l.cust, l.acct, l.amount, l.bal, l.bal - l.amount, "debit")
        EXCEPT !.reference = l.senderReference])]

DebitBalance(D, l) ==
  [D EXCEPT !.account[l.acct].balance = l.bal - l.amount]

\* (mutant) the system customer is created under another phone number than
\* the one it is looked up by
SystemCustomerRowOtherPhone ==
  [phoneNumber |-> "SYSTEM", accountNumber |-> SystemAccountNumber]

\* lines 714-722: the customer row that stands for external recipients.
SystemCustomerRow ==
  [phoneNumber |-> SystemPhone, accountNumber |-> SystemAccountNumber]

\* The Customer table keeps phoneNumber unique: tx.customer.create of the
\* system customer is refused (P2002) when the handler found no system
\* customer at line 705 and a row with that phone number has been committed
\* since.
PhoneNumberTaken(D, l) ==
  /\ l.rAcct = 0 /\ l.rCust = 0 /\ l.sysCust = 0
  /\ FindCustomerByPhone(D.customer, SystemCustomerRow.phoneNumber) # 0

\* The credit target: <<database, account id, customer id, before, after>>.
CreditTarget(D, l) ==
  IF l.rAcct # 0
  THEN <<[D EXCEPT !.account[l.rAcct].balance = l.rBal + l.amount],
         l.rAcct, D.account[l.rAcct].customerId, l.rBal, l.rBal + l.amount>>
  ELSE IF l.rCust # 0
  THEN IF l.plAcct # 0
       THEN <<D, l.plAcct, l.rCust, 0, 0>>
       ELSE <<[D EXCEPT !.account = Append(@,
                 [customerId |-> l.rCust, accountNumber |-> l.rcpt, balance |-> 0])],
              Len(D.account) + 1, l.rCust, 0, 0>>
  ELSE LET D1 == IF l.sysCust # 0 THEN D
                 ELSE [D EXCEPT !.customer = Append(@, SystemCustomerRow)]
           sys == IF l.sysCust # 0 THEN l.sysCust ELSE Len(D.customer) + 1
       IN IF l.extAcct # 0
          THEN <<D1, l.extAcct, sys, 0, 0>>
          ELSE <<[D1 EXCEPT !.account = Append(@,
                    [customerId |-> sys, accountNumber |-> l.rcpt, balance |-> 0])],
                 Len(D1.account) + 1, sys, 0, 0>>

\* (mutant) a credit row only for a recipient with an account in the system
CreditRowInSystemOnly(T, l) ==
  IF l.rAcct = 0 THEN T[1]
  ELSE [T[1] EXCEPT !.transaction = Append(@,
          Row(l.call, T[3], T[2], l.amount, T[4], T[5], "credit"))]

CreditRow(T, l) ==
  [T[1] EXCEPT !.transaction = Append(@,
     [Row(l.call, T[3], T[2], l.amount, T[4], T[5], "credit")
        EXCEPT !.reference = l.recipientReference])]

BeneficiaryUpdate(D, l) ==
  IF l.benId = 0 THEN D
  ELSE [D EXCEPT !.beneficiary[l.benId].transferCount = @ + 1]

Writes(D, l, k) ==
  LET D1 == DebitRow(D, l)
      D2 == DebitBalance(D1, l)
      T3 == CreditTarget(D2, l)
      D4 == CreditRow(T3, l)
  IN CASE k = 0 -> D
       [] k = 1 -> D1
       [] k = 2 -> D2
       [] k = 3 -> T3[1]
       [] k = 4 -> D4
       [] OTHER -> BeneficiaryUpdate(D4, l)

\* prisma.$transaction: the callback returned, every write is committed at once.
Commit(D) ==
  /\ customer' = D.customer
  /\ account' = D.account
  /\ transaction' = D.transaction
  /\ beneficiary' = D.beneficiary

\* (mutant) writes made outside the transaction client survive the throw
RollbackKeepsWrites(before, partial) == partial

\* prisma.$transaction: the callback threw; what remains of its partial writes.
Rollback(before, partial) == before

\* (mutant) the balance the request saw when the source account was chosen
CheckedBalanceAtSelection(l) ==
  IF pendingTransactions[l.txn] = NoTxn THEN account[l.acct].balance
  ELSE pendingTransactions[l.txn].seenBalance

\* The balance the sufficiency check of initiateTransfer compares with the
\* amount: the account row as stored when initiateTransfer runs.
CheckedBalance(l) == account[l.acct].balance

\* lines 550-590: customer and account lookups, the balance check.
ItAccount(p) ==
  /\ pc[p] = "it_account"
  /\ IF account[loc[p].acct].customerId # loc[p].cust
     THEN /\ pc' = [pc EXCEPT ![p] = "v_done"]
          /\ loc' = [loc EXCEPT ![p].result = "Account not found"]
     ELSE IF CheckedBalance(loc[p]) < loc[p].amount
     THEN /\ pc' = [pc EXCEPT ![p] = "v_done"]
          /\ loc' = [loc EXCEPT ![p].result = "Insufficient balance"]
     ELSE /\ pc' = [pc EXCEPT ![p] = "it_rcptAccount"]
          /\ loc' = [loc EXCEPT ![p].bal = CheckedBalance(loc[p])]
  /\ UNCHANGED <<searchVars, bankVars, dbVars, storeVars, nextCall, outcome>>

\* lines 593-606: the recipient's account, if it is one of ours.
ItRecipientAccount(p) ==
  /\ pc[p] = "it_rcptAccount"
  /\ LET r == FindAccountByNumber(account, loc[p].rcpt) IN
     loc' = [loc EXCEPT ![p].rAcct = r,
                        ![p].rBal = IF r = 0 THEN 0 ELSE account[r].balance]
  /\ pc' = [pc EXCEPT ![p] = "it_rcptCustomer"]
  /\ UNCHANGED <<searchVars, bankVars, dbVars, storeVars, nextCall, outcome>>

\* lines 609-627: the recipient customer and the two references, each 'TXN',
\* Date.now() and nine characters of Math.random(); then the $transaction
\* block starts.
ItReferences(p, senderReference, recipientReference) ==
  /\ pc[p] = "it_rcptCustomer"
  /\ LET c == FindCustomerByNumber(customer, loc[p].rcpt) IN
     /\ loc' = [loc EXCEPT ![p].rCust = c,
                           ![p].senderReference = senderReference,
                           ![p].recipientReference = recipientReference]
     /\ pc' = [pc EXCEPT ![p] = IF loc[p].rAcct # 0 THEN "it_commit"
                                ELSE IF c # 0 THEN "it_placeholder"
                                ELSE "it_sysCustomer"]
  /\ UNCHANGED <<searchVars, bankVars, dbVars, storeVars, nextCall, outcome>>

\* The same step when the clock and Math.random() give strings no other row has.
ItRecipientCustomer(p) ==
  ItReferences(p, Reference(loc[p].call, "debit"), Reference(loc[p].call, "credit"))

\* lines 680-685: an account of the recipient customer, inside the block.
ItPlaceholder(p) ==
  /\ pc[p] = "it_placeholder"
  /\ loc' = [loc EXCEPT ![p].plAcct = FindAccountByCustomer(account, loc[p].rCust)]
  /\ pc' = [pc EXCEPT ![p] = "it_commit"]
  /\ UNCHANGED <<searchVars, bankVars, dbVars, storeVars, nextCall, outcome>>

\* lines 705-710: the SYSTEM_EXTERNAL customer, inside the block.
ItSysCustomer(p) ==
  /\ pc[p] = "it_sysCustomer"
  /\ loc' = [loc EXCEPT ![p].sysCust = FindCustomerByPhone(customer, SystemPhone)]
  /\ pc' = [pc EXCEPT ![p] = "it_extAccount"]
  /\ UNCHANGED <<searchVars, bankVars, dbVars, storeVars, nextCall, outcome>>

\* lines 728-734: the external recipient's account under the system customer.
ItExtAccount(p) ==
  /\ pc[p] = "it_extAccount"
  /\ loc' = [loc EXCEPT ![p].extAcct =
       IF loc[p].sysCust = 0 THEN 0
       ELSE FindAccountByNumberAndCustomer(account, loc[p].rcpt, loc[p].sysCust)]
  /\ pc' = [pc EXCEPT ![p] = "it_commit"]
  /\ UNCHANGED <<searchVars, bankVars, dbVars, storeVars, nextCall, outcome>>

\* lines 621, 644, 782-794 and executeTransfer 210-213: the block returns
\* senderTransaction, whose reference goes into the response.
ReturnedReference(l) == l.senderReference

\* lines 627-783: the block runs to its end and commits; creating a second
\* system customer, or updating a beneficiary row that does not exist, throws
\* and rolls everything back.
ItCommit(p) ==
  /\ pc[p] = "it_commit"
  /\ IF PhoneNumberTaken(DB, loc[p])
     THEN /\ Commit(Rollback(DB, Writes(DB, loc[p], 2)))
          /\ loc' = [loc EXCEPT ![p].result = "error"]
     ELSE IF loc[p].benId # 0 /\ loc[p].benId > Len(beneficiary)
     THEN /\ Commit(Rollback(DB, Writes(DB, loc[p], 4)))
          /\ loc' = [loc EXCEPT ![p].result = "error"]
     ELSE /\ Commit(Writes(DB, loc[p], 5))
          /\ loc' = [loc EXCEPT ![p].result = "ok",
                                ![p].ref = ReturnedReference(loc[p])]
  /\ pc' = [pc EXCEPT ![p] = "v_done"]
  /\ UNCHANGED <<searchVars, bankVars, storeVars, nextCall, outcome>>

\* A statement of the block fails (connection, timeout, deadlock, constraint)
\* after k of its writes: prisma rolls the block back and initiateTransfer throws.
ItFail(p, k) ==
  /\ pc[p] \in {"it_placeholder", "it_sysCustomer", "it_extAccount", "it_commit"}
  /\ k <= (IF pc[p] = "it_commit" THEN 4 ELSE 2)
  /\ Commit(Rollback(DB, Writes(DB, loc[p], k)))
  /\ loc' = [loc EXCEPT ![p].result = "error"]
  /\ pc' = [pc EXCEPT ![p] = "v_done"]
  /\ UNCHANGED <<searchVars, bankVars, storeVars, nextCall, outcome>>

\* ------------------------------------------------ executeInternalTransfer
\* lines 323-336: the source account as committed, the balance check.
InSource(p) ==
  /\ pc[p] = "in_source"
  /\ IF account[loc[p].acct].balance < loc[p].amount
     THEN /\ pc' = [pc EXCEPT ![p] = "v_done"]
          /\ loc' = [loc EXCEPT ![p].result = "Insufficient balance"]
     ELSE /\ pc' = [pc EXCEPT ![p] = "in_target"]
          /\ loc' = [loc EXCEPT ![p].bal = account[loc[p].acct].balance]
  /\ UNCHANGED <<searchVars, bankVars, dbVars, storeVars, nextCall, outcome>>

\* lines 339-348: the target account as committed.  An entry that never got
\* a targetAccount makes targetAccount.id throw inside the block.
InTarget(p) ==
  /\ pc[p] = "in_target"
  /\ IF loc[p].target = 0
     THEN /\ loc' = [loc EXCEPT ![p].result = "error"]
          /\ pc' = [pc EXCEPT ![p] = "v_done"]
     ELSE /\ loc' = [loc EXCEPT ![p].rBal = account[loc[p].target].balance]
          /\ pc' = [pc EXCEPT ![p] = "in_commit"]
  /\ UNCHANGED <<searchVars, bankVars, dbVars, storeVars, nextCall, outcome>>

\* lines 351-400: both rows and both balance updates.  source.balance and
\* target.balance are Decimal objects: '-' subtracts, '+' concatenates.
InternalWrites(D, l) ==
  [D EXCEPT
     !.transaction = @ \o
        << Row(l.call, l.cust, l.acct, l.amount, l.bal, l.bal - l.amount, "debit"),
           Row(l.call, l.cust, l.target, l.amount, l.rBal,
               DecimalPlusNumber(l.rBal, l.amount), "credit") >>,
     !.account[l.acct].balance = l.bal - l.amount,
     !.account[l.target].balance = DecimalPlusNumber(l.rBal, l.amount)]

InCommit(p) ==
  /\ pc[p] = "in_commit"
  /\ Commit(InternalWrites(DB, loc[p]))
  /\ loc' = [loc EXCEPT ![p].result = "ok"]
  /\ pc' = [pc EXCEPT ![p] = "v_done"]
  /\ UNCHANGED <<searchVars, bankVars, storeVars, nextCall, outcome>>

InFail(p) ==
  /\ pc[p] \in {"in_target", "in_commit"}
  /\ Commit(Rollback(DB, InternalWrites(DB, loc[p])))
  /\ loc' = [loc EXCEPT ![p].result = "error"]
  /\ pc' = [pc EXCEPT ![p] = "v_done"]
  /\ UNCHANGED <<searchVars, bankVars, storeVars, nextCall, outcome>>

\* ------------------------------------------------ executeAirtimePurchase
\* lines 226-239: the account, the balance check.
AirAccount(p) ==
  /\ pc[p] = "air_account"
  /\ IF account[loc[p].acct].balance < loc[p].amount
     THEN /\ pc' = [pc EXCEPT ![p] = "v_done"]
          /\ loc' = [loc EXCEPT ![p].result = "Insufficient balance"]
     ELSE /\ pc' = [pc EXCEPT ![p] = "air_purchase"]
          /\ loc' = [loc EXCEPT ![p].bal = account[loc[p].acct].balance]
  /\ UNCHANGED <<searchVars, bankVars, dbVars, storeVars, nextCall, outcome>>

OrderStatuses == {"completed-api", "processing-api", "refunded", "threw"}
IsSuccessful(st) == st \in {"completed-api", "processing-api"}

\* lines 242-259, 304-307: the eBills order and its status.
AirPurchase(p, st) ==
  /\ pc[p] = "air_purchase"
  /\ IF IsSuccessful(st)
     THEN /\ pc' = [pc EXCEPT ![p] = "air_commit"]
          /\ UNCHANGED loc
     ELSE /\ pc' = [pc EXCEPT ![p] = "v_done"]
          /\ loc' = [loc EXCEPT ![p].result = "error"]
  /\ UNCHANGED <<searchVars, bankVars, dbVars, storeVars, nextCall, outcome>>

\* (mutant) the amount is taken off the balance as stored at commit
AirtimeWritesDecrement(D, l) ==
  [D EXCEPT
     !.account[l.acct].balance = @ - l.amount,
     !.transaction = Append(@,
        Row(l.call, l.cust, l.acct, l.amount, l.bal, l.bal - l.amount, "debit"))]

\* lines 264-290 (and buyAirtime.js 164-190): the balance read before the
\* order, less the amount, and one debit row.
AirtimeWrites(D, l) ==
  [D EXCEPT
     !.account[l.acct].balance = l.bal - l.amount,
     !.transaction = Append(@,
        Row(l.call, l.cust, l.acct, l.amount, l.bal, l.bal - l.amount, "debit"))]

AirCommit(p) ==
  /\ pc[p] = "air_commit"
  /\ Commit(AirtimeWrites(DB, loc[p]))
  /\ loc' = [loc EXCEPT ![p].result = "ok"]
  /\ pc' = [pc EXCEPT ![p] = "v_done"]
  /\ UNCHANGED <<searchVars, bankVars, storeVars, nextCall, outcome>>

AirFail(p) ==
  /\ pc[p] = "air_commit"
  /\ Commit(Rollback(DB, AirtimeWrites(DB, loc[p])))
  /\ loc' = [loc EXCEPT ![p].result = "error"]
  /\ pc' = [pc EXCEPT ![p] = "v_done"]
  /\ UNCHANGED <<searchVars, bankVars, storeVars, nextCall, outcome>>

\* --------------------------------------------- POST /api/verify-transaction
\* (mutant) no ownership check
OwnsAny(t, c) == TRUE

\* line 95: the entry belongs to the authenticated customer.
Owns(t, c) == t.customerId = c

\* lines 64-101: the entry is looked up and must belong to the caller.  The
\* handler keeps the entry object; nothing changes its fields in 'pending_pin'.
VerifyStart(p, id, c) ==
  LET t == getPendingTransaction(id)
      l == [NoLoc EXCEPT !.kind = "verify", !.txn = id, !.cust = c]
  IN
  /\ pc[p] = "idle"
  /\ id < nextTxnId
  /\ IF t = NoTxn
     THEN /\ pc' = [pc EXCEPT ![p] = "reply"]
          /\ loc' = [loc EXCEPT ![p] = [l EXCEPT !.result = "NotFound"]]
     ELSE IF ~Owns(t, c)
     THEN /\ pc' = [pc EXCEPT ![p] = "reply"]
          /\ loc' = [loc EXCEPT ![p] = [l EXCEPT !.result = "Unauthorized"]]
     ELSE /\ pc' = [pc EXCEPT ![p] = "pin"]
          /\ loc' = [loc EXCEPT ![p] =
               [l EXCEPT !.type = t.type, !.acct = t.accountId,
                  !.amount = t.amount, !.rcpt = t.rcpt, !.benId = t.benId,
                  !.target = t.target]]
  /\ UNCHANGED <<searchVars, bankVars, dbVars, storeVars, nextCall, outcome>>

\* The pc at which the executor of a pending transaction of this type starts.
Executor(type) ==
  CASE type = "transfer" -> "it_account"
    [] type = "internal_transfer" -> "in_source"
    [] OTHER -> "air_account"

\* (mutant) a wrong PIN discards the entry
AfterInvalidPINDiscard(store, id) == [store EXCEPT ![id] = NoTxn]

\* lines 116-121: what verify-transaction does with the entry when
\* bcrypt.compare is false: it answers 401 and leaves the Map alone.
AfterInvalidPIN(store, id) == store

\* (mutant) the executor finds a recipient on every entry
HasBeneficiaryAlways(o) == TRUE

\* executeTransfer 191-201 reads beneficiary.name of the entry object: only
\* an entry that reached 'pending_pin' has a beneficiary, on any other the
\* executor throws at once.  The other executors read no beneficiary.
HasBeneficiary(o) == o.type # "transfer" \/ o.status = "pending_pin"

\* lines 103-135: the PIN hash is fetched and compared (isVerified is what
\* bcrypt.compare returns); a wrong PIN answers 401, a right one enters the
\* executor for the entry's type, which reads the entry object as it is now.
VerifyPin(p, isVerified) ==
  /\ pc[p] = "pin"
  /\ IF isVerified
     THEN LET o == object[loc[p].txn]
              l == [loc[p] EXCEPT !.call = nextCall, !.type = o.type,
                      !.acct = o.accountId, !.amount = o.amount, !.rcpt = o.rcpt,
                      !.benId = o.benId, !.target = o.target]
          IN /\ Begin(o.type, loc[p].txn, o.accountId, o.amount)
             /\ IF HasBeneficiary(o)
                THEN /\ pc' = [pc EXCEPT ![p] = Executor(o.type)]
                     /\ loc' = [loc EXCEPT ![p] = l]
                ELSE /\ pc' = [pc EXCEPT ![p] = "v_done"]
                     /\ loc' = [loc EXCEPT ![p] = [l EXCEPT !.result = "error"]]
             /\ UNCHANGED pendingTransactions
     ELSE /\ pc' = [pc EXCEPT ![p] = "reply"]
          /\ loc' = [loc EXCEPT ![p].result = "InvalidPIN"]
          /\ pendingTransactions' = AfterInvalidPIN(pendingTransactions, loc[p].txn)
          /\ UNCHANGED <<nextCall, outcome>>
  /\ UNCHANGED <<searchVars, bankVars, dbVars, object, nextTxnId, timerArmed>>

\* lines 154-177: the executor returned or threw; either way the entry is
\* deleted before the request is answered.
VerifyDone(p) ==
  /\ pc[p] = "v_done"
  /\ pendingTransactions' = deletePendingTransaction(pendingTransactions, loc[p].txn)
  /\ outcome' = Finish(loc[p].call, loc[p].result)
  /\ pc' = [pc EXCEPT ![p] = "reply"]
  /\ UNCHANGED <<searchVars, bankVars, dbVars, object, nextTxnId, timerArmed, nextCall, loc>>

\* res.json(...): the response leaves and the handler ends.
Reply(p) ==
  /\ pc[p] = "reply"
  /\ pc' = [pc EXCEPT ![p] = "idle"]
  /\ loc' = [loc EXCEPT ![p] = NoLoc]
  /\ UNCHANGED <<searchVars, bankVars, dbVars, storeVars, nextCall, outcome>>

\* A handler without a pending transaction records how its call ended.
Respond(p, r) ==
  /\ outcome' = Finish(loc[p].call, r)
  /\ pc' = [pc EXCEPT ![p] = "reply"]
  /\ loc' = [loc EXCEPT ![p].result = r]

\* ------------------------------------------------- POST /api/load-money
\* loadMoney.js 68-92: a positive amount, the customer's first account.
LoadStart(p, c, amt) ==
  LET a == FirstAccountOf(c) IN
  /\ pc[p] = "idle"
  /\ amt > 0
  /\ a # 0
  /\ Begin("load", 0, a, amt)
  /\ pc' = [pc EXCEPT ![p] = "load_read"]
  /\ loc' = [loc EXCEPT ![p] =
       [NoLoc EXCEPT !.call = nextCall, !.kind = "load", !.cust = c,
          !.type = "load", !.acct = a, !.amount = amt]]
  /\ UNCHANGED <<searchVars, bankVars, dbVars, storeVars>>

\* loadMoney.js 99-110: the current balance, read inside the block.
LoadRead(p) ==
  /\ pc[p] = "load_read"
  /\ loc' = [loc EXCEPT ![p].bal = account[loc[p].acct].balance]
  /\ pc' = [pc EXCEPT ![p] = "load_commit"]
  /\ UNCHANGED <<searchVars, bankVars, dbVars, storeVars, nextCall, outcome>>

\* loadMoney.js 112-149: toNumber() first, so '+' adds; one credit row.
LoadWrites(D, l) ==
  [D EXCEPT
     !.account[l.acct].balance = l.bal + l.amount,
     !.transaction = Append(@,
        Row(l.call, l.cust, l.acct, l.amount, l.bal, l.bal + l.amount, "credit"))]

LoadCommit(p) ==
  /\ pc[p] = "load_commit"
  /\ Commit(LoadWrites(DB, loc[p]))
  /\ Respond(p, "ok")
  /\ UNCHANGED <<searchVars, bankVars, storeVars, nextCall>>

LoadFail(p) ==
  /\ pc[p] \in {"load_read", "load_commit"}
  /\ Commit(Rollback(DB, LoadWrites(DB, loc[p])))
  /\ Respond(p, "error")
  /\ UNCHANGED <<searchVars, bankVars, storeVars, nextCall>>

\* ------------------------------------- POST /api/buy-airtime, own number
\* buyAirtime.js 124-141: the first account as listed, the balance check.
SelfAirtimeStart(p, c, amt) ==
  LET a == FirstAccountOf(c) IN
  /\ pc[p] = "idle"
  /\ a # 0
  /\ IF account[a].balance < amt
     THEN /\ pc' = [pc EXCEPT ![p] = "reply"]
          /\ loc' = [loc EXCEPT ![p] =
               [NoLoc EXCEPT !.kind = "selfair", !.cust = c, !.acct = a,
                  !.amount = amt, !.result = "Insufficient balance"]]
          /\ UNCHANGED <<nextCall, outcome>>
     ELSE /\ Begin("selfair", 0, a, amt)
          /\ pc' = [pc EXCEPT ![p] = "sa_purchase"]
          /\ loc' = [loc EXCEPT ![p] =
               [NoLoc EXCEPT !.call = nextCall, !.kind = "selfair", !.cust = c,
                  !.type = "airtime", !.acct = a, !.amount = amt,
                  !.bal = account[a].balance]]
  /\ UNCHANGED <<searchVars, bankVars, dbVars, storeVars>>

\* buyAirtime.js 150-160, 205-213: the eBills order and its status.
SelfAirtimePurchase(p, st) ==
  /\ pc[p] = "sa_purchase"
  /\ IF IsSuccessful(st)
     THEN /\ pc' = [pc EXCEPT ![p] = "sa_commit"]
          /\ UNCHANGED <<loc, outcome>>
     ELSE Respond(p, "error")
  /\ UNCHANGED <<searchVars, bankVars, dbVars, storeVars, nextCall>>

\* buyAirtime.js 164-203: the debit, without a PIN.
SelfAirtimeCommit(p) ==
  /\ pc[p] = "sa_commit"
  /\ Commit(AirtimeWrites(DB, loc[p]))
  /\ Respond(p, "ok")
  /\ UNCHANGED <<searchVars, bankVars, storeVars, nextCall>>

SelfAirtimeFail(p) ==
  /\ pc[p] = "sa_commit"
  /\ Commit(Rollback(DB, AirtimeWrites(DB, loc[p])))
  /\ Respond(p, "error")
  /\ UNCHANGED <<searchVars, bankVars, storeVars, nextCall>>

\* ------------------------------------- POST /api/transfer, account selection
\* getAccountBalance: the customer's accounts with their balances, oldest first.
RECURSIVE AccountList(_, _)
AccountList(c, i) ==
  IF i > Len(account) THEN << >>
  ELSE (IF account[i].customerId = c
        THEN << [id |-> i, balance |-> account[i].balance] >> ELSE << >>)
       \o AccountList(c, i + 1)

\* What searchBeneficiaries can return for a name: its first n candidates.
Candidates == << <<"A3", 1>>, <<"X1", 0>> >>

\* transfer.js 214-253: a customer with several accounts, one of which covers
\* the amount, is asked which account to debit.
SelectionRequest(c, amt, in, r) ==
  LET accs == AccountList(c, 1) IN
  /\ Len(accs) > 1
  /\ \E i \in 1..Len(accs) : accs[i].balance >= amt
  /\ in \in {"number", "name"}
  /\ createPendingTransaction(
       [Entry("transfer", c, 0, amt, IF in = "number" THEN r ELSE "-", 0, 0, 0)
          EXCEPT !.status = "account_selection", !.accounts = accs, !.input = in])
  /\ UNCHANGED <<searchVars, bankVars, dbVars, pc, loc, nextCall, outcome>>

\* transfer.js 99-101: the entry a follow-up message of customer c is applied to.
SelectionEntry(c) ==
  LET S == {i \in PendingIds :
              /\ pendingTransactions[i] # NoTxn
              /\ pendingTransactions[i].customerId = c
              /\ pendingTransactions[i].type = "transfer"
              /\ pendingTransactions[i].status \in {"beneficiary_selection",
                                                    "account_selection"}}
  IN IF S = {} THEN 0 ELSE CHOOSE i \in S : \A j \in S : i <= j

\* transfer.js 358-454: the reply names the k-th listed account (k = 0: none).
\* A rejected reply re-prompts; an accepted one marks the entry 'processing'
\* and goes on to resolve the recipient.
\* (mutant) the selected account's balance is not checked
RejectsUnknownOnly(t, k) == k = 0

\* transfer.js 379-390, 414-433: the replies handleAccountSelection rejects:
\* no listed account is named, or the one named does not cover the amount.
Rejects(t, k) == k = 0 \/ t.accounts[k].balance < t.amount

AccountSelected(p, c, k, reply) ==
  LET id == SelectionEntry(c)
      t == pendingTransactions[id]
      l == [NoLoc EXCEPT !.kind = "select", !.txn = id, !.cust = c, !.pick = k,
                         !.reply = reply]
  IN
  /\ pc[p] = "idle"
  /\ id # 0
  /\ t.status = "account_selection"
  /\ k \in 0..Len(t.accounts)
  /\ IF Rejects(t, k)
     THEN /\ pc' = [pc EXCEPT ![p] = "reply"]
          /\ loc' = [loc EXCEPT ![p] = [l EXCEPT !.result = "select_account"]]
          /\ UNCHANGED <<pendingTransactions, object>>
     ELSE LET o == [t EXCEPT !.accountId = t.accounts[k].id,
                             !.seenBalance = t.accounts[k].balance,
                             !.status = "processing", !.accounts = << >>]
          IN /\ pendingTransactions' = [pendingTransactions EXCEPT ![id] = o]
             /\ object' = [object EXCEPT ![id] = o]
             /\ pc' = [pc EXCEPT ![p] = "sel_resolve"]
             /\ loc' = [loc EXCEPT ![p] = [l EXCEPT !.obj = o]]
  /\ UNCHANGED <<searchVars, bankVars, dbVars, nextTxnId, timerArmed, nextCall, outcome>>

\* transfer.js 358-454: the handler for a reply of which only the account it
\* names is of interest.
handleAccountSelection(p, c, k) == AccountSelected(p, c, k, NoAccountReply)

\* accountNumber.slice(-4) of the account numbers a sender's accounts have.
AccountEnding(n) == IF n = "A1" THEN "1111" ELSE IF n = "A2" THEN "2222" ELSE "0000"

\* transfer.js 372: the words of position, in the order they are tried.
words == <<"first", "second", "third", "fourth", "fifth",
           "one", "two", "three", "four", "five">>

\* transfer.js 373: words.findIndex(w => lowerMessage.includes(w)), -1 if
\* the reply contains none of them.
wordIndex(m) ==
  LET hit == {i \in 1..Len(words) : words[i] \in m.contained}
  IN IF hit = {} THEN 0 - 1 ELSE (CHOOSE i \in hit : \A j \in hit : i <= j) - 1

\* transfer.js 359-381 and 417-419: the position in the list of the account
\* the reply selects, 0 if it selects none.  A reply with four digits in a row
\* selects by ending; any other by the number or the word of its first match.
selectedAccount(m, accounts) ==
  LET hit == {i \in 1..Len(accounts) :
                AccountEnding(account[accounts[i].id].accountNumber) = m.run}
      index == IF m.lead = "digits" THEN m.number - 1
               ELSE IF wordIndex(m) >= 0 /\ wordIndex(m) < 5 THEN wordIndex(m) % 5
               ELSE 0
  IN IF m.run # ""
     THEN (IF hit = {} THEN 0 ELSE CHOOSE i \in hit : \A j \in hit : i <= j)
     ELSE IF m.lead \in {"digits", "word"} /\ index >= 0 /\ index < Len(accounts)
     THEN index + 1
     ELSE 0

\* The replies of a customer to the list of their accounts.
AccountReplies ==
  { AccountReply("1111", "digits", 1111, {}),           \* "1111"
    AccountReply("2222", "digits", 2222, {}),           \* "2222"
    AccountReply("9999", "digits", 9999, {}),           \* "9999"
    AccountReply("", "digits", 0, {}),                  \* "0"
    AccountReply("", "digits", 1, {}),                  \* "1"
    AccountReply("", "digits", 2, {}),                  \* "2"
    AccountReply("", "digits", 3, {}),                  \* "3"
    AccountReply("", "word", 0, {"first"}),             \* "first"
    AccountReply("", "word", 0, {"second"}),            \* "second"
    AccountReply("", "word", 0, {"third"}),             \* "third"
    AccountReply("", "word", 0, {"one"}),               \* "one"
    AccountReply("", "word", 0, {"two"}),               \* "two"
    AccountReply("", "none", 0, {}) }                   \* "the savings"

\* transfer.js 358-454: a reply of customer c while one of their transfers is
\* in 'account_selection'.
handleAccountSelectionMessage(p, c, m) ==
  /\ SelectionEntry(c) # 0
  /\ AccountSelected(p, c,
        selectedAccount(m, pendingTransactions[SelectionEntry(c)].accounts), m)

\* transfer.js 571-624: what isValidTransferMessage reads of a message: its
\* length, whether it contains one of send, transfer, pay, give, move, to,
\* whether it has two digits in a row, a 10-digit number, a name pattern, and
\* how many of its characters are other than letters, digits and whitespace.
TransferText(length, keyword, amount, accountNumber, name, nonsensical) ==
  [length |-> length, hasTransferKeyword |-> keyword,
   hasMeaningfulAmount |-> amount, hasAccountNumber |-> accountNumber,
   hasNamePattern |-> name, nonsensicalChars |-> nonsensical]

\* transfer.js 571-624: whether the route takes the message for a transfer
\* request.  nonsensicalRatio > 0.25 is 4 * chars > length, < 0.2 is
\* 5 * chars < length.
isValidTransferMessage(x) ==
  IF x.length < 5 THEN FALSE
  ELSE IF /\ 4 * x.nonsensicalChars > x.length
          /\ ~x.hasMeaningfulAmount /\ ~x.hasAccountNumber /\ ~x.hasNamePattern
  THEN FALSE
  ELSE IF x.hasTransferKeyword /\ x.hasMeaningfulAmount
          /\ (x.hasAccountNumber \/ x.hasNamePattern)
  THEN TRUE
  ELSE IF x.hasMeaningfulAmount /\ x.hasAccountNumber THEN TRUE
  ELSE IF x.hasTransferKeyword /\ x.hasMeaningfulAmount
          /\ 5 * x.nonsensicalChars < x.length
  THEN TRUE
  ELSE FALSE

\* Messages sent to /api/transfer while the list of accounts is awaited: what
\* isValidTransferMessage and what handleAccountSelection read of each.
TransferMessages ==
  { [text |-> TransferText(4, FALSE, TRUE, FALSE, FALSE, 0),       \* "1111"
     reply |-> AccountReply("1111", "digits", 1111, {})],
    [text |-> TransferText(4, FALSE, TRUE, FALSE, FALSE, 0),       \* "2222"
     reply |-> AccountReply("2222", "digits", 2222, {})],
    [text |-> TransferText(5, FALSE, FALSE, FALSE, FALSE, 0),      \* "first"
     reply |-> AccountReply("", "word", 0, {"first"})],
    [text |-> TransferText(6, FALSE, FALSE, FALSE, FALSE, 0),      \* "second"
     reply |-> AccountReply("", "word", 0, {"second"})],
    [text |-> TransferText(12, TRUE, TRUE, FALSE, FALSE, 4),       \* "to 1111 ####"
     reply |-> AccountReply("1111", "digits", 1111, {})],
    [text |-> TransferText(21, TRUE, TRUE, FALSE, FALSE, 0),       \* "pay from the 1111 one"
     reply |-> AccountReply("1111", "digits", 1111, {"one"})],
    [text |-> TransferText(28, TRUE, TRUE, FALSE, TRUE, 0),        \* "Send it from 2222 to Ada Obi"
     reply |-> AccountReply("2222", "digits", 2222, {})] }

\* transfer.js 75-117: a message of customer c to /api/transfer while one of
\* their transfers is in 'account_selection'.  The message is checked by
\* isValidTransferMessage before the pending transaction is looked up.
transferRoute(p, c, msg) ==
  /\ pc[p] = "idle"
  /\ SelectionEntry(c) # 0
  /\ pendingTransactions[SelectionEntry(c)].status = "account_selection"
  /\ IF ~isValidTransferMessage(msg.text)
     THEN /\ pc' = [pc EXCEPT ![p] = "reply"]
          /\ loc' = [loc EXCEPT ![p] =
                      [NoLoc EXCEPT !.kind = "route", !.cust = c,
                                    !.txn = SelectionEntry(c),
                                    !.reply = msg.reply, !.result = "not_clear"]]
          /\ UNCHANGED <<searchVars, bankVars, dbVars, storeVars, nextCall, outcome>>
     ELSE handleAccountSelectionMessage(p, c, msg.reply)

\* (mutant) the entry bound to its recipient asks for the account again
BindAndAskAgain(o, cand) ==
  [o EXCEPT !.rcpt = cand[1], !.benId = cand[2], !.status = "account_selection"]

\* transfer.js 472-482, 513-514 (and 271-287, 316-324): the entry is bound to
\* the one recipient found and waits for the PIN.
BindBeneficiary(o, cand) ==
  [o EXCEPT !.rcpt = cand[1], !.benId = cand[2], !.status = "pending_pin"]

\* (mutant) only the first of the candidates is kept
OfferFirstBeneficiary(o, cands) ==
  [o EXCEPT !.beneficiaries = SubSeq(cands, 1, 1), !.status = "beneficiary_selection"]

\* transfer.js 528-529 (and 336-345): the entry keeps the candidates found.
OfferBeneficiaries(o, cands) ==
  [o EXCEPT !.beneficiaries = cands, !.status = "beneficiary_selection"]

\* transfer.js 459-539: verifyAccount or searchBeneficiaries has answered with
\* n recipients; the handler updates its entry object and puts it in the Map.
continueTransferAfterAccountSelection(p, n) ==
  LET o == loc[p].obj
      id == loc[p].txn
      one == IF o.input = "number" THEN <<o.rcpt, 0>> ELSE Candidates[1]
  IN
  /\ pc[p] = "sel_resolve"
  /\ n \in 0..(IF o.input = "number" THEN 1 ELSE Len(Candidates))
  /\ IF n = 0
     THEN /\ loc' = [loc EXCEPT ![p].result = "not_found", ![p].obj = NoTxn]
          /\ UNCHANGED <<pendingTransactions, object>>
     ELSE IF n = 1
     THEN /\ pendingTransactions' = [pendingTransactions EXCEPT ![id] =
               BindBeneficiary(o, one)]
          /\ object' = [object EXCEPT ![id] = pendingTransactions'[id]]
          /\ loc' = [loc EXCEPT ![p].result = "verify_pin", ![p].obj = NoTxn,
                                ![p].found = << one >>]
     ELSE /\ pendingTransactions' = [pendingTransactions EXCEPT ![id] =
               OfferBeneficiaries(o, SubSeq(Candidates, 1, n))]
          /\ object' = [object EXCEPT ![id] = pendingTransactions'[id]]
          /\ loc' = [loc EXCEPT ![p].result = "select_beneficiary", ![p].obj = NoTxn,
                                ![p].found = SubSeq(Candidates, 1, n)]
  /\ pc' = [pc EXCEPT ![p] = "reply"]
  /\ UNCHANGED <<searchVars, bankVars, dbVars, nextTxnId, timerArmed, nextCall, outcome>>

\* ------------------------ POST /api/transfer, a new request (167-353)
\* What the message of a new request is taken to say.
Inputs == {"number", "name", "none"}

\* searchBeneficiaries for customer c: candidates with their beneficiary id.
\* Only customer 1 has a saved beneficiary; other hits have id null.
CandidatesOf(c) ==
  IF c = 1 THEN Candidates
  ELSE [i \in 1..Len(Candidates) |-> <<Candidates[i][1], 0>>]

\* transfer.js 167-212: amount and recipient are extracted from the message
\* (amt = 0: no amount, or the amount 0, was extracted); the router sends the
\* message here only when no selection of the customer is pending (99-143).
\* (mutant) the amount is not checked
MissingAmountNever(amt) == FALSE

\* transfer.js 175: !amount, true of null and of 0.
MissingAmount(amt) == amt = 0

processTransferRequest(p, c, amt, in, r) ==
  LET l == [NoLoc EXCEPT !.kind = "request", !.cust = c, !.amount = amt,
              !.obj = [Entry("transfer", c, 0, amt,
                             IF in = "number" THEN r ELSE "-", 0, 0, 0)
                         EXCEPT !.input = in]]
  IN
  /\ pc[p] = "idle"
  /\ SelectionEntry(c) = 0
  /\ IF MissingAmount(amt)
     THEN /\ pc' = [pc EXCEPT ![p] = "reply"]
          /\ loc' = [loc EXCEPT ![p] = [l EXCEPT !.result = "need_amount", !.obj = NoTxn]]
     ELSE IF in = "none"
     THEN /\ pc' = [pc EXCEPT ![p] = "reply"]
          /\ loc' = [loc EXCEPT ![p] = [l EXCEPT !.result = "need_recipient", !.obj = NoTxn]]
     ELSE /\ pc' = [pc EXCEPT ![p] = "tr_accounts"]
          /\ loc' = [loc EXCEPT ![p] = l]
  /\ UNCHANGED <<searchVars, bankVars, dbVars, storeVars, nextCall, outcome>>

\* transfer.js 214-263: getAccountBalance has answered.  Several accounts:
\* the customer is asked which one; one account: its balance must cover the
\* amount, then the recipient is resolved.
TrAccounts(p) ==
  LET l == loc[p]
      accs == AccountList(l.cust, 1)
      refuse(r) == /\ pc' = [pc EXCEPT ![p] = "reply"]
                   /\ loc' = [loc EXCEPT ![p] = [l EXCEPT !.result = r, !.obj = NoTxn]]
                   /\ UNCHANGED storeVars
  IN
  /\ pc[p] = "tr_accounts"
  /\ IF Len(accs) = 0 THEN refuse("no_account")
     ELSE IF Len(accs) > 1
     THEN IF \A i \in 1..Len(accs) : accs[i].balance < l.amount
          THEN refuse("insufficient")
          ELSE /\ createPendingTransaction(
                    [l.obj EXCEPT !.status = "account_selection", !.accounts = accs])
               /\ pc' = [pc EXCEPT ![p] = "reply"]
               /\ loc' = [loc EXCEPT ![p] =
                    [l EXCEPT !.result = "select_account", !.txn = nextTxnId,
                              !.obj = NoTxn]]
     ELSE IF accs[1].balance < l.amount THEN refuse("insufficient")
     ELSE /\ pc' = [pc EXCEPT ![p] = "tr_resolve"]
          /\ loc' = [loc EXCEPT ![p].obj =
               [l.obj EXCEPT !.accountId = accs[1].id,
                             !.seenBalance = accs[1].balance]]
          /\ UNCHANGED storeVars
  /\ UNCHANGED <<searchVars, bankVars, dbVars, nextCall, outcome>>

\* transfer.js 265-353: verifyAccount or searchBeneficiaries has answered
\* with n recipients; only now is a pending transaction created.
TrResolve(p, n) ==
  LET l == loc[p]
      o == l.obj
      cands == CandidatesOf(l.cust)
      one == IF o.input = "number" THEN <<o.rcpt, 0>> ELSE cands[1]
  IN
  /\ pc[p] = "tr_resolve"
  /\ n \in 0..(IF o.input = "number" THEN 1 ELSE Len(cands))
  /\ IF n = 0
     THEN /\ loc' = [loc EXCEPT ![p] = [l EXCEPT !.result = "not_found", !.obj = NoTxn]]
          /\ UNCHANGED storeVars
     ELSE IF n = 1
     THEN /\ createPendingTransaction(BindBeneficiary(o, one))
          /\ loc' = [loc EXCEPT ![p] =
               [l EXCEPT !.result = "verify_pin", !.txn = nextTxnId, !.obj = NoTxn,
                         !.found = << one >>]]
     ELSE /\ createPendingTransaction(OfferBeneficiaries(o, SubSeq(cands, 1, n)))
          /\ loc' = [loc EXCEPT ![p] =
               [l EXCEPT !.result = "select_beneficiary", !.txn = nextTxnId,
                         !.obj = NoTxn, !.found = SubSeq(cands, 1, n)]]
  /\ pc' = [pc EXCEPT ![p] = "reply"]
  /\ UNCHANGED <<searchVars, bankVars, dbVars, nextCall, outcome>>

\* ------------------ POST /api/transfer, beneficiary selection (119-143)
\* accountNumber.slice(-4) of the account numbers candidates can have.
Last4Digits(n) == IF n = "A3" THEN "1111" ELSE IF n = "X1" THEN "2222" ELSE "0000"

\* The replies of a customer to the list of candidates.
Replies ==
  { Message({"1111"}, "digits", 1111, 0, FALSE, FALSE),    \* "1111"
    Message({"2222"}, "digits", 2222, 0, FALSE, FALSE),    \* "2222"
    Message({}, "digits", 9999, 0, FALSE, FALSE),          \* "9999"
    Message({}, "digits", 2, 0, FALSE, FALSE),             \* "2"
    Message({}, "word", 0, 2, FALSE, FALSE),               \* "the second"
    Message({}, "none", 0, 0, TRUE, FALSE),                \* "two"
    Message({}, "none", 0, 0, FALSE, FALSE),               \* "that one please"
    Message({"2222"}, "digits", 2222, 0, FALSE, TRUE) }    \* "2222 !!!!!"

\* (mutant) every reply passes the check
isValidAnyMessage(m, t) == TRUE

\* transfer.js 629-655: FALSE for a reply more than 40% of which is other than
\* letters, digits and spaces, else whether it has an ending of a candidate or
\* a number or a word of position.
isValidSelectionMessage(m, t) ==
  LET hasAccountEnding ==
        \E i \in 1..Len(t.beneficiaries) :
           Last4Digits(t.beneficiaries[i][1]) \in m.endings
      hasNumberSelection == m.lead # "none" \/ m.cardinal
  IN IF m.noisy THEN FALSE ELSE hasAccountEnding \/ hasNumberSelection

\* (mutant) a number beyond the list selects the last candidate
extractClamped(m, bens) ==
  LET hit == {i \in 1..Len(bens) : Last4Digits(bens[i][1]) \in m.endings}
  IN IF hit # {} THEN CHOOSE i \in hit : \A j \in hit : i <= j
     ELSE IF m.lead = "digits" /\ m.number >= 1
     THEN (IF m.number <= Len(bens) THEN m.number ELSE Len(bens))
     ELSE IF m.lead = "word" /\ m.word >= 1 /\ m.word <= Len(bens) THEN m.word
     ELSE 0

\* transfer.js 660-688: the position in the list of the candidate the reply
\* selects, 0 for null.
extractBeneficiarySelection(m, bens) ==
  LET hit == {i \in 1..Len(bens) : Last4Digits(bens[i][1]) \in m.endings}
      index == IF m.lead = "digits" THEN m.number - 1
               ELSE IF m.lead = "word" THEN m.word - 1
               ELSE 0 - 1
  IN IF hit # {} THEN CHOOSE i \in hit : \A j \in hit : i <= j
     ELSE IF m.lead # "none" /\ index >= 0 /\ index < Len(bens) THEN index + 1
     ELSE 0

\* transfer.js 119-143 and 545-566: a reply of customer c while one of their
\* transfers is in 'beneficiary_selection'.  The entry object is changed in
\* place; there is no await between reading and changing it.
handleBeneficiarySelection(p, c, m) ==
  LET id == SelectionEntry(c)
      t == pendingTransactions[id]
      l == [NoLoc EXCEPT !.kind = "select", !.txn = id, !.cust = c, !.msg = m]
      sel == extractBeneficiarySelection(m, t.beneficiaries)
  IN
  /\ pc[p] = "idle"
  /\ id # 0
  /\ t.status = "beneficiary_selection"
  /\ IF ~isValidSelectionMessage(m, t) \/ sel = 0
     THEN /\ loc' = [loc EXCEPT ![p] = [l EXCEPT !.result = "not_clear"]]
          /\ UNCHANGED <<pendingTransactions, object>>
     ELSE LET o == [t EXCEPT !.rcpt = t.beneficiaries[sel][1],
                             !.benId = t.beneficiaries[sel][2],
                             !.status = "pending_pin", !.beneficiaries = << >>]
          IN /\ pendingTransactions' = [pendingTransactions EXCEPT ![id] = o]
             /\ object' = [object EXCEPT ![id] = o]
             /\ loc' = [loc EXCEPT ![p] = [l EXCEPT !.result = "verify_pin"]]
  /\ pc' = [pc EXCEPT ![p] = "reply"]
  /\ UNCHANGED <<searchVars, bankVars, dbVars, nextTxnId, timerArmed, nextCall, outcome>>

\* ------------------------------------------ the NUBAN checksum (10-61)
\* Account numbers and institution codes are strings, here sequences of
\* characters: 0..9 for the digits, NotADigit for any other character.
NotADigit == 10

IsNaN(ch) == ch = NotADigit

\* bankVerification.js 5: the catalog loaded from data/nigerian-banks.json, by
\* its codes in the order of the file.  Codes have 3, 5 or 6 digits; 044 and
\* 011 have the same weighted sum modulo 10.
NigerianBanks ==
  << <<0, 4, 4>>, <<0, 5, 8>>, <<0, 1, 1>>, <<5, 0, 2, 1, 1>>, <<0, 9, 0, 1, 1, 0>> >>

OPay == <<9, 9, 9, 9, 9, 2>>
PalmPay == <<9, 9, 9, 9, 9, 1>>

\* The institution codes validateNUBAN is called with.
BankCodes ==
  {NigerianBanks[i] : i \in 1..Len(NigerianBanks)} \cup {OPay, PalmPay, <<0, 4, NotADigit>>}

\* The account numbers the functions are called with: six prefixes, every
\* last digit, and one number of 9 digits.
AccountNumbers ==
  { pre \o <<3, 4, 5, 6, 7, 8, 9>> \o <<d>> :
      pre \in {<<9, 0>>, <<8, 0>>, <<8, 1>>, <<7, 0>>, <<0, 1>>, <<1, 2>>}, d \in 0..9 }
  \cup { <<9, 0, 1, 2, 3, 4, 5, 6, 7>> }

\* (mutant) a cycle of 11 weights
weightsShort == <<3, 7, 3, 3, 7, 3, 3, 7, 3, 3, 7>>

\* bankVerification.js 16
weights == <<3, 7, 3, 3, 7, 3, 3, 7, 3, 3, 7, 3>>

\* bankVerification.js 21-30: the loop from index i (counted from 0) with sum
\* so far; -1 stands for the 'return false' on a character that is no digit.
RECURSIVE SumLoop(_, _, _)
SumLoop(serialNumber, i, sum) ==
  IF i >= Len(serialNumber) THEN sum
  ELSE IF IsNaN(serialNumber[i + 1]) THEN 0 - 1
  ELSE SumLoop(serialNumber, i + 1,
               sum + serialNumber[i + 1] * weights[(i % Len(weights)) + 1])

\* bankVerification.js 10-42
validateNUBAN(accountNumber, bankCode) ==
  IF Len(accountNumber) # 10 THEN FALSE
  ELSE LET serialNumber == bankCode \o SubSeq(accountNumber, 1, 9)
           sum == SumLoop(serialNumber, 0, 0)
           lastDigit == accountNumber[10]
       IN IF sum < 0 \/ IsNaN(lastDigit) THEN FALSE
          ELSE (10 - (sum % 10)) % 10 = lastDigit

\* bankVerification.js 54-58: the loop over the catalog from its k-th entry.
RECURSIVE BanksFrom(_, _)
BanksFrom(accountNumber, k) ==
  IF k > Len(NigerianBanks) THEN << >>
  ELSE (IF validateNUBAN(accountNumber, NigerianBanks[k])
        THEN <<NigerianBanks[k]>> ELSE << >>)
       \o BanksFrom(accountNumber, k + 1)

\* (mutant) the search stops at the first bank that validates
detectFirstBank(accountNumber) ==
  LET possibleBanks == BanksFrom(accountNumber, 1)
  IN IF Len(accountNumber) # 10 \/ possibleBanks = << >> THEN << >>
     ELSE <<possibleBanks[1]>>

\* bankVerification.js 47-61
detectPossibleBanks(accountNumber) ==
  IF Len(accountNumber) # 10 THEN << >> ELSE BanksFrom(accountNumber, 1)

\* validateNUBAN is called with account number a and institution code c.
ValidateCall(a, c) ==
  /\ nuban = NoCall
  /\ nuban' = [NoCall EXCEPT !.fn = "validateNUBAN", !.accountNumber = a,
                             !.bankCode = c, !.valid = validateNUBAN(a, c)]
  /\ UNCHANGED <<searchVars, dbVars, storeVars, pc, loc, nextCall, outcome, verification>>

\* detectPossibleBanks is called with account number a.
DetectCall(a) ==
  /\ nuban = NoCall
  /\ nuban' = [NoCall EXCEPT !.fn = "detectPossibleBanks", !.accountNumber = a,
                             !.banks = detectPossibleBanks(a),
                             !.original = a,
                             !.originalBanks = detectPossibleBanks(a)]
  /\ UNCHANGED <<searchVars, dbVars, storeVars, pc, loc, nextCall, outcome, verification>>

\* detectPossibleBanks is called again with the number of the last call in
\* which the i-th digit is replaced by the different digit d.
ChangeDigit(i, d) ==
  /\ nuban.fn = "detectPossibleBanks"
  /\ nuban.accountNumber = nuban.original
  /\ i \in 1..Len(nuban.original)
  /\ d # nuban.original[i]
  /\ LET a == [nuban.original EXCEPT ![i] = d]
     IN nuban' = [nuban EXCEPT !.accountNumber = a,
                               !.banks = detectPossibleBanks(a)]
  /\ UNCHANGED <<searchVars, dbVars, storeVars, pc, loc, nextCall, outcome, verification>>

\* ------------------------------------------------ verifyAccount (111-167)
\* (mutant) the fallback applies to the numbers that start with 01 as well
fintechPrefixesAnd01 == {<<9, 0>>, <<8, 0>>, <<8, 1>>, <<7, 0>>, <<0, 1>>}

\* bankVerification.js 141: ['90', '80', '81', '70']
fintechPrefixes == {<<9, 0>>, <<8, 0>>, <<8, 1>>, <<7, 0>>}

\* bankVerification.js 139-141: where verifyAccount goes when the loop over
\* possibleBanks is over without a success.
AfterBanks(accountNumber) ==
  IF Len(accountNumber) >= 2 /\ SubSeq(accountNumber, 1, 2) \in fintechPrefixes
  THEN "opay" ELSE "throw"

\* What a call of verifyWithPaystack ends with: the details of the account, or
\* an error with one of two messages.
Responses == {"ok", "Paystack API error", "timeout"}

\* (mutant) the first error caught is kept
CaughtFirst(lastError, message) == IF lastError = "null" THEN message ELSE lastError

\* bankVerification.js 132-134, 146-148, 154-156: lastError = error
Caught(lastError, message) == message

\* One call of verifyWithPaystack with code c that ends with r, inside a try.
Paystack(v, c, r) ==
  [v EXCEPT !.calls = Append(v.calls, [bankCode |-> c, ok |-> r = "ok", message |-> r]),
            !.lastError = IF r = "ok" THEN v.lastError ELSE Caught(v.lastError, r)]

\* verifyAccount returns the details of the account at bank c, or throws.
Return(v, c) == [v EXCEPT !.pc = "done", !.result = "ok", !.details = c]
Throw(v, message) == [v EXCEPT !.pc = "done", !.result = "error", !.thrown = message]

\* bankVerification.js 160-166: the error thrown carries lastError?.message ||
\* 'Unknown error' after either of its two prefixes.
ThrowLast(v) == Throw(v, IF v.lastError = "null" THEN "Unknown error" ELSE v.lastError)

Goto(v, l) == IF l = "throw" THEN ThrowLast(v) ELSE [v EXCEPT !.pc = l]

\* bankVerification.js 111-126: the call, up to its first await.  key: whether
\* PAYSTACK_SECRET_KEY is set; c: the bank code, NoBankCode for none.
verifyAccount(a, c, key) ==
  LET v == [NoVerification EXCEPT !.accountNumber = a, !.bankCode = c]
      possibleBanks == detectPossibleBanks(a)
  IN
  /\ verification.pc = "idle"
  /\ verification' =
       IF ~key THEN Throw(v, "Paystack API key not configured")
       ELSE IF c # NoBankCode THEN [v EXCEPT !.pc = "direct"]
       ELSE IF Len(possibleBanks) > 0
            THEN [v EXCEPT !.pc = "banks", !.possibleBanks = possibleBanks]
            ELSE Goto(v, AfterBanks(a))
  /\ UNCHANGED <<searchVars, dbVars, storeVars, pc, loc, nextCall, outcome, nuban>>

\* bankVerification.js 119-121: return await verifyWithPaystack(accountNumber, bankCode)
VerifyDirect(r) ==
  LET v == [verification EXCEPT
              !.calls = Append(@, [bankCode |-> verification.bankCode,
                                   ok |-> r = "ok", message |-> r])]
  IN
  /\ verification.pc = "direct"
  /\ verification' = IF r = "ok" THEN Return(v, verification.bankCode) ELSE Throw(v, r)
  /\ UNCHANGED <<searchVars, dbVars, storeVars, pc, loc, nextCall, outcome, nuban>>

\* bankVerification.js 128-135: one round of the loop over possibleBanks.
VerifyBank(r) ==
  LET bank == verification.possibleBanks[Len(verification.calls) + 1]
      v == Paystack(verification, bank, r)
  IN
  /\ verification.pc = "banks"
  /\ verification' =
       IF r = "ok" THEN Return(v, bank)
       ELSE IF Len(v.calls) < Len(v.possibleBanks) THEN v
       ELSE Goto(v, AfterBanks(v.accountNumber))
  /\ UNCHANGED <<searchVars, dbVars, storeVars, pc, loc, nextCall, outcome, nuban>>

\* bankVerification.js 142-148: try OPay
VerifyOPay(r) ==
  LET v == Paystack(verification, OPay, r)
  IN
  /\ verification.pc = "opay"
  /\ verification' = IF r = "ok" THEN Return(v, OPay) ELSE [v EXCEPT !.pc = "palmpay"]
  /\ UNCHANGED <<searchVars, dbVars, storeVars, pc, loc, nextCall, outcome, nuban>>

\* bankVerification.js 150-156: try PalmPay; the throws at 160-166
VerifyPalmPay(r) ==
  LET v == Paystack(verification, PalmPay, r)
  IN
  /\ verification.pc = "palmpay"
  /\ verification' = IF r = "ok" THEN Return(v, PalmPay) ELSE ThrowLast(v)
  /\ UNCHANGED <<searchVars, dbVars, storeVars, pc, loc, nextCall, outcome, nuban>>

\* ------------------------------ searchBeneficiaries (database.js 370-493)
MaxCustomers == 51    \* customers registered with a matching name
MaxTransfers == 2     \* transfers to a candidate found by the search

\* database.js 466: take: 50
TakeTransactions == 50

\* database.js 391, 433, 471: `${accountNumber}-${bankName || ''}`
Key(accountNumber, bankName) == <<accountNumber, bankName>>

\* The forEach loops at 390-406, 430-449, 470-486: the rows from the i-th on,
\* each with its key and its candidate, are pushed unless the key was seen.
RECURSIVE PushUnseen(_, _, _)
PushUnseen(rows, i, s) ==
  IF i > Len(rows) THEN s
  ELSE PushUnseen(rows, i + 1,
         IF rows[i].key \in s.seenAccounts THEN s
         ELSE [s EXCEPT !.seenAccounts = @ \cup {rows[i].key},
                        !.results = Append(@, rows[i].candidate)])

Candidate(accountNumber, bankName, source) ==
  [accountNumber |-> accountNumber, bankName |-> bankName, source |-> source]

\* database.js 431-446: key from the first account, bankName of the candidate
\* account.bankName || c.bankName
CustomerCandidate(c) ==
  [key |-> Key(c.accounts[1].accountNumber, c.accounts[1].bankName),
   candidate |-> Candidate(c.accounts[1].accountNumber,
                           IF c.accounts[1].bankName # "null"
                           THEN c.accounts[1].bankName ELSE c.bankName,
                           "customer")]

\* The customers that have an account (431), in table order.
RECURSIVE WithAccounts(_, _)
WithAccounts(cs, i) ==
  IF i > Len(cs) THEN << >>
  ELSE (IF Len(cs[i].accounts) > 0 THEN <<CustomerCandidate(cs[i])>> ELSE << >>)
       \o WithAccounts(cs, i + 1)

RowCandidate(r, source) ==
  [key |-> Key(r.accountNumber, r.bankName),
   candidate |-> Candidate(r.accountNumber, r.bankName, source)]

\* database.js 376-406: the saved beneficiaries are read and pushed.
SearchBeneficiaries ==
  /\ search.pc = "idle"
  /\ search' = [PushUnseen([i \in 1..Len(directory.beneficiaries) |->
                              RowCandidate(directory.beneficiaries[i], "beneficiary")],
                           1, NoSearch)
                EXCEPT !.pc = "customers"]
  /\ UNCHANGED <<dbVars, storeVars, bankVars, pc, loc, nextCall, outcome, directory>>

\* database.js 409-449: the other customers, each with its first account.
SearchCustomers ==
  /\ search.pc = "customers"
  /\ search' = [PushUnseen(WithAccounts(directory.customers, 1), 1, search)
                EXCEPT !.pc = "transactions"]
  /\ UNCHANGED <<dbVars, storeVars, bankVars, pc, loc, nextCall, outcome, directory>>

\* The first n rows of a table (take: n).
Take(rows, n) == SubSeq(rows, 1, IF Len(rows) < n THEN Len(rows) ELSE n)

\* database.js 454-488: the newest 50 matching debit rows of the sender.
SearchTransactions ==
  /\ search.pc = "transactions"
  /\ LET rows == Take(directory.transactions, TakeTransactions)
     IN search' = [PushUnseen([i \in 1..Len(rows) |-> RowCandidate(rows[i], "transaction")],
                              1, search)
                   EXCEPT !.pc = "done"]
  /\ UNCHANGED <<dbVars, storeVars, bankVars, pc, loc, nextCall, outcome, directory>>

\* The caller has the list; the next search can begin.
SearchReturn ==
  /\ search.pc = "done"
  /\ search' = [search EXCEPT !.pc = "idle"]
  /\ UNCHANGED <<dbVars, storeVars, bankVars, pc, loc, nextCall, outcome, directory>>

\* database.js 1151-1190 (register-account): a customer with a matching name
\* registers with bank b; the customer and the account get a new account
\* number and the same bankName.
Register(b) ==
  LET n == Len(directory.customers) + 1
  IN
  /\ n <= MaxCustomers
  /\ directory' = [directory EXCEPT !.customers = Append(@,
        [accountNumber |-> n, bankName |-> b,
         accounts |-> << [accountNumber |-> n, bankName |-> b] >>])]
  /\ UNCHANGED <<dbVars, storeVars, bankVars, pc, loc, nextCall, outcome, search>>

\* database.js 628-646, 676-700: what a successful initiateTransfer of the
\* sender to (accountNumber, bankName) with receiver name `named` leaves in
\* the rows above: a customer known by the account number who has no account
\* gets one with that number and bankName; the debit row is found by the
\* search when its receiverName matches.
Transferred(D, accountNumber, bankName, named) ==
  LET known == {k \in 1..Len(D.customers) :
                  D.customers[k].accountNumber = accountNumber}
      cs == [k \in 1..Len(D.customers) |->
               IF k \in known /\ Len(D.customers[k].accounts) = 0
               THEN [D.customers[k] EXCEPT !.accounts =
                       << [accountNumber |-> accountNumber, bankName |-> bankName] >>]
               ELSE D.customers[k]]
  IN [D EXCEPT !.customers = cs,
               !.transactions = IF named
                                THEN <<[accountNumber |-> accountNumber,
                                        bankName |-> bankName]>> \o @
                                ELSE @]

\* part_005 179-198 and verify-transaction: a manual transfer to the account
\* number of customer k, who has no account row: the beneficiary has name
\* null and bankName null.
ManualTransfer(k) ==
  /\ k \in 1..Len(directory.customers)
  /\ Len(directory.customers[k].accounts) = 0
  /\ directory' = Transferred(directory, directory.customers[k].accountNumber,
                              "null", FALSE)
  /\ UNCHANGED <<dbVars, storeVars, bankVars, pc, loc, nextCall, outcome, search>>

\* transfer.js 314-345, part_010 191-214: a transfer to the i-th candidate of
\* the list the search returned; recipientData is the candidate.
TransferToCandidate(i) ==
  /\ search.pc = "idle"
  /\ i \in 1..Len(search.results)
  /\ Len(directory.transactions) < MaxTransfers
  /\ directory' = Transferred(directory, search.results[i].accountNumber,
                              search.results[i].bankName, TRUE)
  /\ UNCHANGED <<dbVars, storeVars, bankVars, pc, loc, nextCall, outcome, search>>

\* ------------------------------------------- POST /api/internal-transfer
\* internalTransfer.js 76-78: the entry a follow-up message of customer c is
\* applied to.
InternalSelectionEntry(c) ==
  LET S == {i \in PendingIds :
              /\ pendingTransactions[i] # NoTxn
              /\ pendingTransactions[i].customerId = c
              /\ pendingTransactions[i].type = "internal_transfer"
              /\ pendingTransactions[i].status = "account_selection"}
  IN IF S = {} THEN 0 ELSE CHOOSE i \in S : \A j \in S : i <= j

\* (mutant) the account named is never taken for the source account
SameAccountNever(targetAccount, sourceAccount) == FALSE

\* internalTransfer.js 168 and 243: targetAccount.id === sourceAccount.id
SameAccount(targetAccount, sourceAccount) == targetAccount.id = sourceAccount.id

\* internalTransfer.js 114-210: a request with an amount.  The source is the
\* first account.  k tells what the message says after 'ending with': nothing
\* (k = 0), the last four digits of the k-th account, or four digits no
\* account ends with (k beyond the list).
processInternalTransferRequest(p, c, amt, k) ==
  LET accounts == AccountList(c, 1)
      sourceAccount == accounts[1]
      l == [NoLoc EXCEPT !.kind = "internal", !.cust = c, !.amount = amt, !.pick = k]
  IN
  /\ pc[p] = "idle"
  /\ InternalSelectionEntry(c) = 0
  /\ Len(accounts) > 1
  /\ k \in 0..(Len(accounts) + 1)
  /\ pc' = [pc EXCEPT ![p] = "reply"]
  /\ IF sourceAccount.balance < amt
     THEN /\ loc' = [loc EXCEPT ![p] = [l EXCEPT !.result = "Insufficient balance"]]
          /\ UNCHANGED storeVars
     ELSE IF k = 0
     THEN /\ createPendingTransaction(
               [Entry("internal_transfer", c, sourceAccount.id, amt, "-", 0, 0,
                      sourceAccount.balance)
                  EXCEPT !.status = "account_selection", !.accounts = accounts])
          /\ loc' = [loc EXCEPT ![p] = [l EXCEPT !.result = "select_account",
                                                 !.txn = nextTxnId]]
     ELSE IF k > Len(accounts)
     THEN /\ loc' = [loc EXCEPT ![p] = [l EXCEPT !.result = "not found"]]
          /\ UNCHANGED storeVars
     ELSE IF SameAccount(accounts[k], sourceAccount)
     THEN /\ loc' = [loc EXCEPT ![p] = [l EXCEPT !.result = "same account"]]
          /\ UNCHANGED storeVars
     ELSE /\ createPendingTransaction(
               Entry("internal_transfer", c, sourceAccount.id, amt, "-", 0,
                     accounts[k].id, sourceAccount.balance))
          /\ loc' = [loc EXCEPT ![p] = [l EXCEPT !.result = "verify_pin",
                                                 !.txn = nextTxnId]]
  /\ UNCHANGED <<searchVars, bankVars, dbVars, nextCall, outcome>>

\* internalTransfer.js 217-261: the reply to 'which account?'.  k tells what
\* the first four digits of the message are: the last four digits of the k-th
\* listed account, or (k = 0) no digits or digits no listed account ends with.
\* Only a listed account other than the source moves the entry to 'pending_pin'.
handleInternalAccountSelection(p, c, k) ==
  LET id == InternalSelectionEntry(c)
      t == pendingTransactions[id]
      l == [NoLoc EXCEPT !.kind = "internalSelect", !.txn = id, !.cust = c,
                         !.pick = k]
  IN
  /\ pc[p] = "idle"
  /\ id # 0
  /\ k \in 0..Len(t.accounts)
  /\ pc' = [pc EXCEPT ![p] = "reply"]
  /\ IF k = 0 \/ SameAccount(t.accounts[k], [id |-> t.accountId])
     THEN /\ loc' = [loc EXCEPT ![p] = [l EXCEPT !.result = "select_account"]]
          /\ UNCHANGED <<pendingTransactions, object>>
     ELSE LET o == [t EXCEPT !.target = t.accounts[k].id,
                             !.status = "pending_pin", !.accounts = << >>]
          IN /\ pendingTransactions' = [pendingTransactions EXCEPT ![id] = o]
             /\ object' = [object EXCEPT ![id] = o]
             /\ loc' = [loc EXCEPT ![p] = [l EXCEPT !.result = "verify_pin"]]
  /\ UNCHANGED <<searchVars, bankVars, dbVars, nextTxnId, timerArmed, nextCall, outcome>>

\* ------------------------------------------------------- specifications
Verify ==
  \/ \E p \in Procs, id \in PendingIds, c \in Callers : VerifyStart(p, id, c)
  \/ \E p \in Procs, isVerified \in BOOLEAN : VerifyPin(p, isVerified)
  \/ \E p \in Procs : VerifyDone(p)
  \/ \E p \in Procs : Reply(p)

Transfer ==
  \/ \E p \in Procs : ItAccount(p)
  \/ \E p \in Procs : ItRecipientAccount(p)
  \/ \E p \in Procs : ItRecipientCustomer(p)
  \/ \E p \in Procs : ItPlaceholder(p)
  \/ \E p \in Procs : ItSysCustomer(p)
  \/ \E p \in Procs : ItExtAccount(p)
  \/ \E p \in Procs : ItCommit(p)
  \/ \E p \in Procs, k \in 0..4 : ItFail(p, k)

Internal ==
  \/ \E p \in Procs : InSource(p)
  \/ \E p \in Procs : InTarget(p)
  \/ \E p \in Procs : InCommit(p)
  \/ \E p \in Procs : InFail(p)

Airtime ==
  \/ \E p \in Procs : AirAccount(p)
  \/ \E p \in Procs, st \in OrderStatuses : AirPurchase(p, st)
  \/ \E p \in Procs : AirCommit(p)
  \/ \E p \in Procs : AirFail(p)

Load ==
  \/ \E p \in Procs, c \in Senders, amt \in Amounts : LoadStart(p, c, amt)
  \/ \E p \in Procs : LoadRead(p)
  \/ \E p \in Procs : LoadCommit(p)
  \/ \E p \in Procs : LoadFail(p)

SelfAirtime ==
  \/ \E p \in Procs, c \in Senders, amt \in Amounts : SelfAirtimeStart(p, c, amt)
  \/ \E p \in Procs, st \in OrderStatuses : SelfAirtimePurchase(p, st)
  \/ \E p \in Procs : SelfAirtimeCommit(p)
  \/ \E p \in Procs : SelfAirtimeFail(p)

\* Transfers confirmed through verify-transaction.
Next ==
  \/ \E c \in Senders, a \in 1..Len(account), amt \in Amounts, r \in Recipients :
       TransferRequest(c, a, amt, r)
  \/ Verify
  \/ Transfer

Spec == Init /\ [][Next]_vars

\* Every operation that writes a balance: transfers to an account of the
\* system, internal transfers, airtime with and without PIN, load-money.
NextMoney ==
  \/ \E a \in 1..Len(account), amt \in Amounts : TransferRequest(1, a, amt, <<"A3", 0>>)
  \/ \E t \in 1..Len(account), amt \in Amounts : InternalTransferRequest(1, t, amt)
  \/ \E amt \in Amounts : AirtimeRequest(1, amt)
  \/ \E p \in Procs, id \in PendingIds : VerifyStart(p, id, 1)
  \/ \E p \in Procs : VerifyPin(p, TRUE)
  \/ \E p \in Procs : VerifyDone(p)
  \/ \E p \in Procs : Reply(p)
  \/ \E p \in Procs : ItAccount(p)
  \/ \E p \in Procs : ItRecipientAccount(p)
  \/ \E p \in Procs : ItRecipientCustomer(p)
  \/ \E p \in Procs : ItCommit(p)
  \/ Internal
  \/ Airtime
  \/ Load
  \/ SelfAirtime

SpecMoney == Init /\ [][NextMoney]_vars

\* The store, its timers and the account-selection stage of a transfer.
NextStore ==
  \/ \E amt \in Amounts, in \in {"number", "name"}, r \in {"A3", "X1"} :
       SelectionRequest(1, amt, in, r)
  \/ \E p \in Procs, k \in 0..2 : handleAccountSelection(p, 1, k)
  \/ \E p \in Procs, n \in 0..2 : continueTransferAfterAccountSelection(p, n)
  \/ \E id \in PendingIds : ExpireTimer(id)
  \/ \E p \in Procs : Reply(p)

SpecStore == Init /\ [][NextStore]_vars

\* The conversation of a transfer from the request to 'pending_pin':
\* customer 1 has two accounts, customer 4 one.
NextFlow ==
  \/ \E p \in Procs, c \in {1, 4}, amt \in {0, 1}, in \in Inputs :
       processTransferRequest(p, c, amt, in, "A3")
  \/ \E p \in Procs : TrAccounts(p)
  \/ \E p \in Procs, n \in 0..Len(Candidates) : TrResolve(p, n)
  \/ \E p \in Procs, k \in 0..2 : handleAccountSelection(p, 1, k)
  \/ \E p \in Procs, n \in 0..Len(Candidates) : continueTransferAfterAccountSelection(p, n)
  \/ \E p \in Procs, c \in {1, 4}, m \in Replies : handleBeneficiarySelection(p, c, m)
  \/ \E id \in PendingIds : ExpireTimer(id)
  \/ \E p \in Procs : Reply(p)

SpecFlow == Init /\ [][NextFlow]_vars

\* A transfer of customer 1 to an account number, from the account selection
\* to its execution through verify-transaction.
NextConfirm ==
  \/ \E amt \in Amounts : SelectionRequest(1, amt, "number", "A3")
  \/ \E p \in Procs, k \in 0..2 : handleAccountSelection(p, 1, k)
  \/ \E p \in Procs, n \in 0..1 : continueTransferAfterAccountSelection(p, n)
  \/ \E id \in PendingIds : ExpireTimer(id)
  \/ \E p \in Procs, id \in PendingIds : VerifyStart(p, id, 1)
  \/ \E p \in Procs : VerifyPin(p, TRUE)
  \/ \E p \in Procs : VerifyDone(p)
  \/ \E p \in Procs : Reply(p)
  \/ \E p \in Procs : ItAccount(p)
  \/ \E p \in Procs : ItRecipientAccount(p)
  \/ \E p \in Procs : ItRecipientCustomer(p)
  \/ \E p \in Procs : ItCommit(p)

SpecConfirm == Init /\ [][NextConfirm]_vars

\* The checksum functions applied to the account numbers and codes above.
NextNuban ==
  \/ \E a \in AccountNumbers, c \in BankCodes : ValidateCall(a, c)
  \/ \E a \in AccountNumbers : DetectCall(a)
  \/ \E i \in 1..10, d \in 0..9 : ChangeDigit(i, d)

SpecNuban == Init /\ [][NextNuban]_vars

\* One call of verifyAccount, with a bank code and without.
NextVerify ==
  \/ \E a \in AccountNumbers, c \in {NoBankCode, NigerianBanks[2]}, key \in BOOLEAN :
       verifyAccount(a, c, key)
  \/ \E r \in Responses : VerifyDirect(r)
  \/ \E r \in Responses : VerifyBank(r)
  \/ \E r \in Responses : VerifyOPay(r)
  \/ \E r \in Responses : VerifyPalmPay(r)

SpecVerify == Init /\ [][NextVerify]_vars

\* The recipient search among few customers, with the transfers that write
\* the rows it reads.
NextSearch ==
  \/ \E b \in {"null", "GTB"} : Len(directory.customers) < 2 /\ Register(b)
  \/ \E k \in 1..2 : ManualTransfer(k)
  \/ SearchBeneficiaries
  \/ SearchCustomers
  \/ SearchTransactions
  \/ SearchReturn
  \/ \E i \in 1..4 : TransferToCandidate(i)

SpecSearch == Init /\ [][NextSearch]_vars

\* The recipient search while customers with a matching name register.
NextDirectory ==
  \/ Register("GTB")
  \/ SearchBeneficiaries
  \/ SearchCustomers
  \/ SearchTransactions
  \/ SearchReturn

SpecDirectory == Init /\ [][NextDirectory]_vars

\* Transfers by account numbers and transfers to the saved beneficiary,
\* confirmed through verify-transaction.
NextBeneficiary ==
  \/ \E c \in Senders, a \in 1..Len(account), n \in ReceiverAccountNumbers,
         amt \in Amounts : ManualTransferRequest(c, a, n, amt)
  \/ \E c \in Senders, a \in 1..Len(account), amt \in Amounts :
       TransferRequest(c, a, amt, <<"A3", 1>>)
  \/ Verify
  \/ Transfer

SpecBeneficiary == Init /\ [][NextBeneficiary]_vars

\* What 'TXN' + Date.now() + nine characters of Math.random() can evaluate
\* to: nothing makes two evaluations differ, in one request or in two.
GeneratedReferences == {Reference(1, "debit"), Reference(1, "credit")}

\* Transfers of 1 to an account of the system and to an external number,
\* confirmed through verify-transaction, with the references as the clock and
\* the random number generator give them.
NextReference ==
  \/ \E c \in Senders, a \in 1..Len(account), r \in {<<"A3", 0>>, <<"X1", 0>>} :
       TransferRequest(c, a, 1, r)
  \/ Verify
  \/ \E p \in Procs : ItAccount(p)
  \/ \E p \in Procs : ItRecipientAccount(p)
  \/ \E p \in Procs, senderReference \in GeneratedReferences,
         recipientReference \in GeneratedReferences :
       ItReferences(p, senderReference, recipientReference)
  \/ \E p \in Procs : ItSysCustomer(p)
  \/ \E p \in Procs : ItExtAccount(p)
  \/ \E p \in Procs : ItCommit(p)
  \/ \E p \in Procs, k \in 0..4 : ItFail(p, k)

SpecReference == Init /\ [][NextReference]_vars

\* Internal transfers from the request, with or without a selection, to
\* their execution.
NextInternal ==
  \/ \E p \in Procs, c \in Senders, amt \in Amounts, k \in 0..3 :
       processInternalTransferRequest(p, c, amt, k)
  \/ \E p \in Procs, c \in Senders, k \in 0..2 :
       handleInternalAccountSelection(p, c, k)
  \/ Verify
  \/ Internal

SpecInternal == Init /\ [][NextInternal]_vars

\* ================================================================ claims
RowsOf(k) == {i \in 1..Len(transaction) : transaction[i].call = k}
DebitsOf(k) == {i \in RowsOf(k) : transaction[i].transactionType = "debit"}
CreditsOf(k) == {i \in RowsOf(k) : transaction[i].transactionType = "credit"}

\* Call k has returned r to its caller (the route may not have answered yet).
Returned(k, r) ==
  \/ outcome[k].result = r
  \/ \E p \in Procs : pc[p] = "v_done" /\ loc[p].call = k /\ loc[p].result = r

Calls == 1..Len(outcome)
TransferCalls == {k \in Calls : outcome[k].kind = "transfer"}

\* C1: every initiateTransfer call that returned successfully has persisted
\* exactly one debit row and exactly one credit row, of the same amount.
C1_OneDebitOneCredit ==
  \A k \in TransferCalls :
    Returned(k, "ok") =>
      /\ Cardinality(DebitsOf(k)) = 1
      /\ Cardinality(CreditsOf(k)) = 1
      /\ \A i, j \in RowsOf(k) : transaction[i].amount = transaction[j].amount
      /\ \A i \in RowsOf(k) : transaction[i].amount = outcome[k].amount

\* C1 witness: successful transfers to a system account and to an outsider.
C1_Witness ==
  /\ Len(outcome) >= 2
  /\ outcome[1].kind = "transfer" /\ outcome[1].result = "ok"
  /\ outcome[2].kind = "transfer" /\ outcome[2].result = "ok"
  /\ FindCustomerByPhone(customer, SystemPhone) # 0

\* C2 (as claimed): of two different pending transfers from the same account that both ran to
\* the end without a database failure, each amount fitting the opening
\* balance but not their sum, exactly one succeeds, the other is refused for
\* insufficient balance, and the balance drops by the successful amount only.
C2_ExactlyOneSucceeds ==
  \A k1, k2 \in TransferCalls :
    ( /\ k1 < k2
      /\ outcome[k1].txn # outcome[k2].txn
      /\ outcome[k1].acct = 1 /\ outcome[k2].acct = 1
      /\ outcome[k1].amount <= InitBalance /\ outcome[k2].amount <= InitBalance
      /\ outcome[k1].amount + outcome[k2].amount > InitBalance
      /\ outcome[k1].result \in {"ok", "Insufficient balance"}
      /\ outcome[k2].result \in {"ok", "Insufficient balance"} )
    => \E w \in {k1, k2} :
         /\ outcome[w].result = "ok"
         /\ \A o \in {k1, k2} \ {w} : outcome[o].result = "Insufficient balance"
         /\ account[1].balance = InitBalance - outcome[w].amount

\* C3 (as claimed): the executor is entered at most once per pending id.
C3_ExecutedAtMostOnce == \A id \in PendingIds : ExecCount(id) <= 1

\* The steps in which initiateTransfer fails after its balance check.
TransferFailsAfterCheck(p) ==
  /\ pc[p] \in {"it_rcptAccount", "it_rcptCustomer", "it_placeholder",
                "it_sysCustomer", "it_extAccount", "it_commit"}
  /\ pc'[p] = "v_done"
  /\ loc'[p].result # "ok"

\* C4: when initiateTransfer fails after the balance check, nothing it wrote
\* persists: no row, no balance change, no account or customer created, no
\* beneficiary change.
C4_FailureLeavesNoWrite ==
  [][\A p \in Procs : TransferFailsAfterCheck(p) =>
        /\ UNCHANGED <<customer, account, transaction, beneficiary>>
        /\ RowsOf(loc[p].call) = {}]_vars

\* C4 witness: a transfer that failed inside the block, its writes rolled back.
C4_Witness ==
  \E p \in Procs :
    /\ pc[p] = "v_done" /\ loc[p].type = "transfer" /\ loc[p].result = "error"
    /\ loc[p].bal >= loc[p].amount
    /\ RowsOf(loc[p].call) = {}
    /\ Len(transaction) > 0

\* C5: the balance check of initiateTransfer compares the amount with the
\* balance stored when it runs; when that is too low it throws 'Insufficient
\* balance' and writes nothing, whatever balance the request had seen.
C5_ChecksStoredBalance ==
  [][\A p \in Procs :
       (pc[p] = "it_account" /\ pc'[p] # "it_account") =>
         IF account[loc[p].acct].balance < loc[p].amount
         THEN /\ pc'[p] = "v_done"
              /\ loc'[p].result = "Insufficient balance"
              /\ UNCHANGED <<customer, account, transaction, beneficiary>>
              /\ RowsOf(loc[p].call) = {}
         ELSE /\ pc'[p] = "it_rcptAccount"
              /\ loc'[p].bal = account[loc[p].acct].balance]_vars

\* C5 witness: a transfer refused at execution although the balance seen at
\* selection time covered the amount.
C5_Witness ==
  \E p \in Procs :
    /\ pc[p] = "v_done" /\ loc[p].type = "transfer"
    /\ loc[p].result = "Insufficient balance"
    /\ pendingTransactions[loc[p].txn] # NoTxn
    /\ pendingTransactions[loc[p].txn].seenBalance >= loc[p].amount

\* C6: no stored balance is ever negative.
C6_NoNegativeBalance == \A i \in 1..Len(account) : account[i].balance >= 0

\* C6 witness: two debits of the first account have been committed, at least
\* one of them computed from a balance read before the other committed.
C6_Witness ==
  \E i, j \in 1..Len(transaction) :
    /\ i < j
    /\ transaction[i].transactionType = "debit"
    /\ transaction[j].transactionType = "debit"
    /\ transaction[i].accountId = 1 /\ transaction[j].accountId = 1
    /\ transaction[j].balanceBefore # transaction[i].balanceAfter

\* C7 (as claimed): on the rows of a successful transfer, the credit row's
\* balanceAfter - balanceBefore equals the debit row's balanceBefore -
\* balanceAfter, whatever kind of recipient.
C7_SymmetricRows ==
  \A k \in TransferCalls :
    Returned(k, "ok") =>
      \A d \in DebitsOf(k), c \in CreditsOf(k) :
        transaction[c].balanceAfter - transaction[c].balanceBefore
          = transaction[d].balanceBefore - transaction[d].balanceAfter

\* C8: a verify-transaction request by a customer who does not own the entry
\* is answered Unauthorized at once (no PIN comparison, no executor) and
\* changes neither the store nor the database.
C8_UnauthorizedTouchesNothing ==
  [][\A p \in Procs :
       ( /\ pc[p] = "idle"
         /\ loc'[p].kind = "verify"
         /\ pendingTransactions[loc'[p].txn] # NoTxn
         /\ pendingTransactions[loc'[p].txn].customerId # loc'[p].cust )
       => /\ pc'[p] = "reply"
          /\ loc'[p].result = "Unauthorized"
          /\ pendingTransactions'[loc'[p].txn] = pendingTransactions[loc'[p].txn]
          /\ pendingTransactions'[loc'[p].txn] # NoTxn
          /\ UNCHANGED <<customer, account, transaction, beneficiary,
                         nextCall, outcome>>]_vars

\* C8 witness: an Unauthorized answer about an entry that is still there.
C8_Witness ==
  \E p \in Procs :
    /\ pc[p] = "reply" /\ loc[p].result = "Unauthorized"
    /\ pendingTransactions[loc[p].txn] # NoTxn
    /\ pendingTransactions[loc[p].txn].customerId # loc[p].cust

\* The step in which verify-transaction answers 'Invalid PIN'.
InvalidPINStep(p) ==
  pc[p] = "pin" /\ pc'[p] = "reply" /\ loc'[p].result = "InvalidPIN"

\* C9 (as claimed): a failed PIN comparison discards the pending transaction.
C9_WrongPINDiscards ==
  [][\A p \in Procs :
       InvalidPINStep(p) => pendingTransactions'[loc[p].txn] = NoTxn]_vars

\* C9 (amended): a failed PIN comparison leaves the store and the database as
\* they are: the entry is not discarded by it.
C9_WrongPINKeeps ==
  [][\A p \in Procs :
       InvalidPINStep(p) =>
         UNCHANGED <<pendingTransactions, customer, account, transaction,
                     beneficiary>>]_vars

\* C9 witness: 'Invalid PIN' was answered and the entry is still in the store.
C9_Witness ==
  \E p \in Procs :
    /\ pc[p] = "reply" /\ loc[p].result = "InvalidPIN"
    /\ pendingTransactions[loc[p].txn] # NoTxn

\* The 15 minutes of pending transaction id are over: its timer has fired.
Expired(id) == id < nextTxnId /\ id \notin timerArmed

\* C10 (as claimed): once its 15 minutes are over, a get of a pending
\* transaction finds nothing.
C10_ExpiredIsAbsent ==
  \A id \in PendingIds : Expired(id) => getPendingTransaction(id) = NoTxn

\* The verify-transaction handlers that have had their executor's answer.
Answered(p) == pc[p] = "reply" /\ loc[p].kind = "verify" /\ loc[p].call # 0

\* C11 (as claimed): when the executor has been invoked, the pending
\* transaction is deleted whether the executor succeeds or fails; after
\* success the response carries the reference of the call's debit row, after
\* 'Insufficient balance' it is the top-up answer; and once the request is
\* answered the id is never found in the store again.
C11_DeletedAfterExecution ==
  /\ [][\A p \in Procs :
          (pc[p] = "v_done" /\ pc'[p] = "reply") =>
             pendingTransactions'[loc[p].txn] = NoTxn]_vars
  /\ [](\A k \in Calls :
          (outcome[k].txn # 0 /\ outcome[k].result # "running")
             => getPendingTransaction(outcome[k].txn) = NoTxn)
  /\ [](\A p \in Procs :
          (Answered(p) /\ loc[p].type = "transfer") =>
             /\ loc[p].result = outcome[loc[p].call].result
             /\ loc[p].result = "ok" =>
                  /\ Cardinality(DebitsOf(loc[p].call)) = 1
                  /\ \A i \in DebitsOf(loc[p].call) :
                       transaction[i].reference = loc[p].ref
             /\ loc[p].result # "ok" => loc[p].ref = NoReference)

\* The step in which handler p learns that recipient resolution has failed.
ResolutionFails(p) ==
  /\ pc[p] \in {"tr_resolve", "sel_resolve"}
  /\ pc'[p] = "reply"
  /\ loc'[p].result = "not_found"

\* C12 (as claimed): when recipient resolution fails, no pending transaction
\* of that request is in the store afterwards, in the initial request (none
\* is created) and after an account-selection reply (none remains).
C12_NothingRetainedOnFailure ==
  [][\A p \in Procs :
       ResolutionFails(p) =>
         IF pc[p] = "tr_resolve"
         THEN UNCHANGED <<pendingTransactions, nextTxnId>>
         ELSE pendingTransactions'[loc[p].txn] = NoTxn]_vars

\* C13: when recipient resolution finds exactly one candidate the pending
\* transaction is in 'pending_pin' bound to that candidate; when it finds
\* several, it is in 'beneficiary_selection' and holds all of them, in the
\* order found.  (found is what the lookup returned to the handler.)
C13_ResolutionOutcome ==
  [][\A p \in Procs :
       (pc[p] \in {"tr_resolve", "sel_resolve"} /\ pc'[p] = "reply"
          /\ loc'[p].found # << >>) =>
         LET f == loc'[p].found
             e == pendingTransactions'[loc'[p].txn]
         IN /\ e # NoTxn
            /\ e.amount = loc[p].obj.amount
            /\ e.accountId = loc[p].obj.accountId
            /\ IF Len(f) = 1
               THEN e.status = "pending_pin" /\ <<e.rcpt, e.benId>> = f[1]
               ELSE e.status = "beneficiary_selection" /\ e.beneficiaries = f]_vars

\* C13 witness: one transfer bound at once, another awaiting the choice among
\* two candidates.
C13_Witness ==
  /\ \E id \in PendingIds :
       /\ pendingTransactions[id] # NoTxn
       /\ pendingTransactions[id].status = "beneficiary_selection"
       /\ Len(pendingTransactions[id].beneficiaries) = 2
  /\ \E p \in Procs :
       /\ pc[p] = "reply" /\ loc[p].result = "verify_pin" /\ Len(loc[p].found) = 1
       /\ pendingTransactions[loc[p].txn] # NoTxn
       /\ pendingTransactions[loc[p].txn].status = "pending_pin"

\* A reply of handler p is applied to an entry in 'beneficiary_selection'.
BeneficiaryReply(p) ==
  /\ pc[p] = "idle" /\ pc'[p] = "reply"
  /\ loc'[p].kind = "select" /\ loc'[p].msg # NoMessage

\* The candidates of entry t whose last 4 digits reply m contains.
Named(m, t) ==
  {i \in 1..Len(t.beneficiaries) : Last4Digits(t.beneficiaries[i][1]) \in m.endings}

C15_NoMatchChangesNothing ==
  [][\A p \in Procs :
       BeneficiaryReply(p) =>
         LET m == loc'[p].msg
             t == pendingTransactions[loc'[p].txn]
         IN ( /\ m.lead = "digits"
              /\ Named(m, t) = {}
              /\ ~(m.number >= 1 /\ m.number <= Len(t.beneficiaries)) )
            => /\ UNCHANGED <<pendingTransactions, object>>
               /\ loc'[p].result = "not_clear"]_vars

\* C15 witness: '9999' was answered with a re-prompt, both candidates kept.
C15_Witness ==
  \E p \in Procs :
    /\ pc[p] = "reply" /\ loc[p].msg # NoMessage
    /\ loc[p].msg.lead = "digits" /\ loc[p].msg.number > Len(Candidates)
    /\ loc[p].msg.endings = {}
    /\ loc[p].result = "not_clear"
    /\ pendingTransactions[loc[p].txn] # NoTxn
    /\ pendingTransactions[loc[p].txn].status = "beneficiary_selection"
    /\ pendingTransactions[loc[p].txn].beneficiaries = Candidates

\* C16: in 'account_selection' a rejected reply (it names no listed account,
\* or one whose balance is below the amount) leaves the entry in the store as
\* it is: status, account list, amount and recipient input.
C16_RejectedSelectionChangesNothing ==
  [][\A p \in Procs :
       ( /\ pc[p] = "idle" /\ pc'[p] # "idle"
         /\ loc'[p].kind = "select" /\ loc'[p].msg = NoMessage ) =>
         LET t == pendingTransactions[loc'[p].txn]
             k == loc'[p].pick
         IN (k = 0 \/ t.accounts[k].balance < t.amount)
            => /\ UNCHANGED <<pendingTransactions, object>>
               /\ t.status = "account_selection"
               /\ pc'[p] = "reply"
               /\ loc'[p].result = "select_account"]_vars

\* C16 witness: an account that does not cover the amount was chosen and the
\* entry still offers the whole list.
C16_Witness ==
  \E p \in Procs :
    /\ pc[p] = "reply" /\ loc[p].result = "select_account" /\ loc[p].pick # 0
    /\ pendingTransactions[loc[p].txn] # NoTxn
    /\ pendingTransactions[loc[p].txn].status = "account_selection"
    /\ Len(pendingTransactions[loc[p].txn].accounts) = 2

\* C17: a message from which no strictly positive amount is extracted is
\* answered with the request for an amount and creates no pending transaction.
C17_NoAmountNoPending ==
  [][\A p \in Procs :
       ( /\ pc[p] = "idle" /\ pc'[p] # "idle"
         /\ loc'[p].kind = "request" /\ ~(loc'[p].amount > 0) )
       => /\ pc'[p] = "reply"
          /\ loc'[p].result = "need_amount"
          /\ UNCHANGED <<pendingTransactions, object, nextTxnId, timerArmed>>]_vars

\* C17 witness: the clarification was the answer although an entry of an
\* earlier request is in the store.
C17_Witness ==
  \E p \in Procs :
    /\ pc[p] = "reply" /\ loc[p].kind = "request" /\ loc[p].result = "need_amount"
    /\ loc[p].txn = 0
    /\ \E id \in PendingIds : pendingTransactions[id] # NoTxn

\* The sum S of the claim: over the first n characters of s, digit times the
\* weight at its position, positions counted from 0.
RECURSIVE WeightedDigits(_, _)
WeightedDigits(s, n) ==
  IF n = 0 THEN 0
  ELSE WeightedDigits(s, n - 1)
       + s[n] * <<3, 7, 3, 3, 7, 3, 3, 7, 3, 3, 7, 3>>[((n - 1) % 12) + 1]

\* The check digit of the claim for institution code c and account number a.
CheckDigitFor(a, c) ==
  LET s == c \o SubSeq(a, 1, 9)
  IN (10 - (WeightedDigits(s, Len(s)) % 10)) % 10

AllDigits(s) == \A i \in 1..Len(s) : s[i] \in 0..9

\* C18: for a 10-digit account number and an all-digit institution code
\* validateNUBAN returns true exactly when (10 - (S mod 10)) mod 10 is the
\* 10th digit of the account number, S being the weighted sum over the code
\* followed by the first 9 digits, with weight [3,7,3,3,7,3,3,7,3,3,7,3][i mod 12].
C18_ChecksumRule ==
  ( /\ nuban.fn = "validateNUBAN"
    /\ Len(nuban.accountNumber) = 10
    /\ AllDigits(nuban.accountNumber) /\ AllDigits(nuban.bankCode) )
  => (nuban.valid <=> CheckDigitFor(nuban.accountNumber, nuban.bankCode)
                        = nuban.accountNumber[10])

\* C18 witness: a number was found valid for a code of 5 digits, for which
\* the positions run past the 12 weights.
C18_Witness ==
  /\ nuban.fn = "validateNUBAN" /\ nuban.valid
  /\ Len(nuban.bankCode) + 9 > 12

InSeq(x, s) == \E i \in 1..Len(s) : s[i] = x

\* C19: an account number whose 10th digit is the check digit for a code C of
\* the catalog has C among the banks detectPossibleBanks returns, and the
\* number with any one digit changed is not valid for C: C is not among the
\* banks detected for the changed number.
C19_DetectedAndFragile ==
  nuban.fn = "detectPossibleBanks" =>
    \A k \in 1..Len(NigerianBanks) :
      ( /\ Len(nuban.original) = 10
        /\ CheckDigitFor(nuban.original, NigerianBanks[k]) = nuban.original[10] )
      => /\ InSeq(NigerianBanks[k], nuban.originalBanks)
         /\ nuban.accountNumber # nuban.original
              => /\ ~InSeq(NigerianBanks[k], nuban.banks)
                 /\ ~validateNUBAN(nuban.accountNumber, NigerianBanks[k])

\* C19 witness: a number valid for two codes of the catalog had one digit
\* changed.
C19_Witness ==
  /\ nuban.fn = "detectPossibleBanks"
  /\ Len(nuban.originalBanks) = 2
  /\ nuban.accountNumber # nuban.original
  /\ nuban.accountNumber[10] = nuban.original[10]

\* The calls the claim allows verifyAccount to make for account number a, in
\* their order: the checksum-valid banks in catalog order, then, for the four
\* prefixes, 999992 and 999991.
RECURSIVE ValidBanksFrom(_, _)
ValidBanksFrom(a, k) ==
  IF k > Len(NigerianBanks) THEN << >>
  ELSE (IF Len(a) = 10 /\ CheckDigitFor(a, NigerianBanks[k]) = a[10]
        THEN <<NigerianBanks[k]>> ELSE << >>) \o ValidBanksFrom(a, k + 1)

AllowedCalls(a) ==
  ValidBanksFrom(a, 1)
  \o (IF Len(a) >= 2 /\ <<a[1], a[2]>> \in {<<9, 0>>, <<8, 0>>, <<8, 1>>, <<7, 0>>}
      THEN << <<9, 9, 9, 9, 9, 2>>, <<9, 9, 9, 9, 9, 1>> >> ELSE << >>)

\* C20: without a bank code verifyAccount calls the verification service for
\* the checksum-valid banks in catalog order, then, only if all of them failed
\* (or there were none) and the number starts with 90, 80, 81 or 70, for
\* 999992 and then 999991; it makes no call after the first that succeeded,
\* and what it returns is what that call returned.
C20_CallOrder ==
  verification.bankCode = NoBankCode =>
    LET calls == verification.calls
        allowed == AllowedCalls(verification.accountNumber)
    IN /\ Len(calls) <= Len(allowed)
       /\ \A i \in 1..Len(calls) : calls[i].bankCode = allowed[i]
       /\ \A i \in 1..Len(calls) : calls[i].ok => i = Len(calls)
       /\ (Len(calls) > 0 /\ calls[Len(calls)].ok)
            => /\ verification.pc = "done" /\ verification.result = "ok"
               /\ verification.details = calls[Len(calls)].bankCode
       /\ verification.result = "ok" => Len(calls) > 0 /\ calls[Len(calls)].ok

\* C20 witness: two banks of the catalog and 999992 failed, 999991 succeeded.
C20_Witness ==
  /\ verification.bankCode = NoBankCode
  /\ verification.pc = "done" /\ verification.result = "ok"
  /\ Len(verification.calls) = 4
  /\ verification.details = PalmPay

\* C21: without a bank code verifyAccount fails exactly when every call of
\* the verification service it made failed, or it made none; when it made at
\* least one, the error it throws carries the message of the last that failed.
C21_FailsWithLastError ==
  (verification.bankCode = NoBankCode /\ verification.pc = "done") =>
    LET calls == verification.calls
    IN /\ verification.result = "error" <=> (\A i \in 1..Len(calls) : ~calls[i].ok)
       /\ (verification.result = "error" /\ Len(calls) > 0)
            => verification.thrown = calls[Len(calls)].message
       /\ ( /\ verification.result = "error" /\ Len(calls) = 0
            /\ verification.thrown # "Paystack API key not configured" )
            => AllowedCalls(verification.accountNumber) = << >>

\* C21 witness: three calls failed, the last with another message than the
\* ones before it, and that message is in the error thrown.
C21_Witness ==
  /\ verification.bankCode = NoBankCode
  /\ verification.pc = "done" /\ verification.result = "error"
  /\ Len(verification.calls) >= 3
  /\ verification.calls[1].message # verification.calls[Len(verification.calls)].message
  /\ verification.thrown = verification.calls[Len(verification.calls)].message

C23_AtMostFifty == Len(search.results) <= 50

\* C24 (as claimed): when the recipient number matches no account but is the
\* accountNumber of a known customer, a successful initiateTransfer credits an
\* account of that customer: its balance goes up by the amount (a zero-balance
\* account is created first if the customer has none) and the credit row has
\* balanceAfter = balanceBefore + amount.
C24_KnownCustomerCredited ==
  [][\A p \in Procs :
       ( /\ pc[p] = "it_commit" /\ pc'[p] = "v_done"
         /\ loc'[p].result = "ok"
         /\ loc[p].rAcct = 0 /\ loc[p].rCust # 0 )
       => \E i \in 1..Len(account') :
            /\ account'[i].customerId = loc[p].rCust
            /\ account'[i].balance =
                 (IF i <= Len(account) THEN account[i].balance ELSE 0) + loc[p].amount
            /\ \E j \in 1..Len(transaction') :
                 /\ transaction'[j].call = loc[p].call
                 /\ transaction'[j].transactionType = "credit"
                 /\ transaction'[j].accountId = i
                 /\ transaction'[j].balanceAfter
                      = transaction'[j].balanceBefore + loc[p].amount]_vars

\* The customers and accounts that stand for recipients outside the system,
\* and the credit rows of the transfers sent to such recipients.
SinkCustomers == {c \in 1..Len(customer) : customer[c].phoneNumber = SystemPhone}
SinkAccounts == {a \in 1..Len(account) : account[a].customerId \in SinkCustomers}
ExternalCredits ==
  {j \in 1..Len(transaction) :
     /\ transaction[j].transactionType = "credit"
     /\ transaction[j].customerId \in SinkCustomers}

RECURSIVE SumOfAmounts(_)
SumOfAmounts(rows) ==
  IF rows = {} THEN 0
  ELSE LET j == CHOOSE x \in rows : TRUE
       IN transaction[j].amount + SumOfAmounts(rows \ {j})

\* C25 (as claimed): once a transfer to a recipient that is neither an account
\* nor a customer of the system has succeeded, there is exactly one sink
\* customer and exactly one sink account, every such transfer's credit row is
\* on that account, and its balance is the sum of the amounts sent.
C25_OneSinkHoldsTheSum ==
  ExternalCredits # {} =>
    /\ Cardinality(SinkCustomers) = 1
    /\ Cardinality(SinkAccounts) = 1
    /\ \A j \in ExternalCredits : transaction[j].accountId \in SinkAccounts
    /\ \A a \in SinkAccounts : account[a].balance = SumOfAmounts(ExternalCredits)

\* The credit rows of transfers to a number outside the system.
ExternalTransferDone ==
  \E j \in 1..Len(transaction) :
    /\ transaction[j].transactionType = "credit"
    /\ account[transaction[j].accountId].accountNumber = "X1"

C27_CountFollowsItsBeneficiary ==
  [][\A b \in 1..Len(beneficiary) :
       beneficiary'[b].transferCount # beneficiary[b].transferCount =>
         /\ beneficiary'[b].transferCount = beneficiary[b].transferCount + 1
         /\ \E p \in Procs :
              /\ pc[p] = "it_commit" /\ loc'[p].result = "ok"
              /\ loc[p].cust = beneficiary[b].customerId
              /\ loc[p].benId = b
              /\ loc[p].rcpt = beneficiary[b].accountNumber
              /\ object[loc[p].txn].input # "manual_transfer"]_vars

\* C28 (as claimed): no two ledger rows have the same reference, the debit
\* and the credit row of one transfer included.
C28_ReferencesDiffer ==
  \A i, j \in 1..Len(transaction) :
    i # j => transaction[i].reference # transaction[j].reference

\* The rows of internal transfers come in pairs of one call.
InternalCalls == {k \in 1..Len(outcome) : outcome[k].kind = "internal_transfer"}

C30_MovesTheAmount ==
  [][\A p \in Procs :
       /\ ( /\ pc[p] = "in_commit" /\ pc'[p] = "v_done"
            /\ loc'[p].result = "ok" )
          => /\ account'[loc[p].acct].balance
                  = account[loc[p].acct].balance - loc[p].amount
             /\ account'[loc[p].target].balance
                  = account[loc[p].target].balance + loc[p].amount
             /\ account'[loc[p].acct].balance + account'[loc[p].target].balance
                  = account[loc[p].acct].balance + account[loc[p].target].balance
       /\ ( /\ pc[p] \in {"in_source", "in_target", "in_commit"}
            /\ pc'[p] = "v_done" /\ loc'[p].result # "ok" )
          => UNCHANGED <<account, transaction>>]_vars

\* A money movement that verify-transaction started: it is begun only in the
\* branch where bcrypt.compare returned true, for the entry's pending
\* transaction; the other money movements belong to no pending transaction.
PinVerified(k) == outcome[k].txn # 0

\* C31 (as claimed): every debit row was written by a request in which the
\* PIN comparison for the owning customer succeeded.
C31_NoDebitWithoutPIN ==
  \A i \in 1..Len(transaction) :
    transaction[i].transactionType = "debit" => PinVerified(transaction[i].call)

\* ------------------------------------------------ replies that select an account
NextSelect ==
  \/ \E amt \in Amounts : SelectionRequest(1, amt, "number", "A3")
  \/ \E p \in Procs, m \in AccountReplies : handleAccountSelectionMessage(p, 1, m)
  \/ \E p \in Procs, n \in 0..1 : continueTransferAfterAccountSelection(p, n)
  \/ \E id \in PendingIds : ExpireTimer(id)
  \/ \E p \in Procs : Reply(p)

SpecSelect == Init /\ [][NextSelect]_vars

\* The position a reply of one number or one word of position names: k for
\* the digit k, for the k-th ordinal and for the k-th number word; 0 for any
\* other reply.
NamedPosition(m) ==
  IF m.run # "" THEN 0
  ELSE IF m.lead = "digits" THEN m.number
  ELSE IF m.lead = "word" /\ \E i \in 1..Len(words) : m.contained = {words[i]}
  THEN (((CHOOSE i \in 1..Len(words) : m.contained = {words[i]}) - 1) % 5) + 1
  ELSE 0

\* A step in which handleAccountSelection takes a reply of process p.
AccountReplyTaken(p) ==
  /\ pc[p] = "idle" /\ pc'[p] # "idle"
  /\ loc'[p].kind = "select" /\ loc'[p].reply # NoAccountReply

\* C32 (as claimed): in status 'account_selection' a reply that names a
\* position of the list by an ordinal, a number word or a bare digit selects
\* the account at that position.
C32_ReplySelectsNamedPosition ==
  [][\A p \in Procs :
       (/\ AccountReplyTaken(p)
        /\ NamedPosition(loc'[p].reply) \in
              1..Len(pendingTransactions[loc'[p].txn].accounts))
       => loc'[p].pick = NamedPosition(loc'[p].reply)]_vars

\* ------------------------------------------- replies sent to /api/transfer
NextRoute ==
  \/ \E amt \in Amounts : SelectionRequest(1, amt, "number", "A3")
  \/ \E p \in Procs, msg \in TransferMessages : transferRoute(p, 1, msg)
  \/ \E p \in Procs, n \in 0..1 : continueTransferAfterAccountSelection(p, n)
  \/ \E id \in PendingIds : ExpireTimer(id)
  \/ \E p \in Procs : Reply(p)

SpecRoute == Init /\ [][NextRoute]_vars

\* Replies that consist only of an ending, or only of 'first' or 'second'.
BareReplies ==
  { AccountReply("1111", "digits", 1111, {}), AccountReply("2222", "digits", 2222, {}),
    AccountReply("", "word", 0, {"first"}), AccountReply("", "word", 0, {"second"}) }

\* The position in the list of the account a bare reply is about, 0 if none.
ListedPosition(m, accounts) ==
  IF m.run = "" THEN NamedPosition(m)
  ELSE LET hit == {i \in 1..Len(accounts) :
                     AccountEnding(account[accounts[i].id].accountNumber) = m.run}
       IN IF hit = {} THEN 0 ELSE CHOOSE i \in hit : \A j \in hit : i <= j

\* A step in which /api/transfer takes a message of process p while entry id
\* awaits the account.
RouteMessageTaken(p) ==
  /\ pc[p] = "idle" /\ pc'[p] # "idle"
  /\ loc'[p].kind \in {"route", "select"} /\ loc'[p].reply # NoAccountReply

\* C33 (as claimed): while a transfer awaits account selection, a reply to
\* /api/transfer that is only a listed account's last four digits, or only
\* 'first' or 'second', is taken as the selection and, the account covering
\* the amount, moves the pending transaction on to recipient resolution.
C33_BareReplyAdvances ==
  [][\A p \in Procs :
       LET m == loc'[p].reply
           t == pendingTransactions[loc'[p].txn]
           k == ListedPosition(m, t.accounts)
       IN (/\ RouteMessageTaken(p)
           /\ m \in BareReplies
           /\ k \in 1..Len(t.accounts)
           /\ t.accounts[k].balance >= t.amount)
          => /\ pc'[p] = "sel_resolve"
             /\ pendingTransactions'[loc'[p].txn].status = "processing"
             /\ pendingTransactions'[loc'[p].txn].accountId = t.accounts[k].id]_vars

\* ------------------------------------------------ ledger rows and balances
\* generateAccountNumber (pendingTransactions.js 1114-1142) for the row that
\* will have id n: a number no customer has.
GeneratedAccountNumber(n) ==
  CASE n = 5 -> "Y5" [] n = 6 -> "Y6" [] n = 7 -> "Y7" [] OTHER -> "Y8"

\* POST /api/create-account (part_007 61-76): one more account of customer
\* c, under a generated number, with balance 0.
createAccount(c) ==
  /\ Len(account) < MaxAccountRows
  /\ account' = Append(account,
       [customerId |-> c, accountNumber |-> GeneratedAccountNumber(Len(account) + 1),
        balance |-> 0])
  /\ UNCHANGED <<customer, transaction, beneficiary, searchVars, bankVars,
                 storeVars, pc, loc, nextCall, outcome>>

\* Customer 3, whose own number N3 is no account's number, opens an account
\* and loads money into it; customer 1 sends money to N3.
NextLedger ==
  \/ createAccount(3)
  \/ \E p \in Procs, amt \in Amounts : LoadStart(p, 3, amt)
  \/ \E p \in Procs : LoadRead(p)
  \/ \E p \in Procs : LoadCommit(p)
  \/ \E a \in 1..Len(account), amt \in Amounts : TransferRequest(1, a, amt, <<"N3", 0>>)
  \/ \E p \in Procs, id \in PendingIds : VerifyStart(p, id, 1)
  \/ \E p \in Procs : VerifyPin(p, TRUE)
  \/ \E p \in Procs : VerifyDone(p)
  \/ \E p \in Procs : Reply(p)
  \/ \E p \in Procs : ItAccount(p)
  \/ \E p \in Procs : ItRecipientAccount(p)
  \/ \E p \in Procs : ItRecipientCustomer(p)
  \/ \E p \in Procs : ItPlaceholder(p)
  \/ \E p \in Procs : ItCommit(p)

SpecLedger == Init /\ [][NextLedger]_vars

\* The ledger rows of account a, and the one written last.
LedgerOf(a) == {i \in 1..Len(transaction) : transaction[i].accountId = a}
LastRowOf(a) == CHOOSE i \in LedgerOf(a) : \A j \in LedgerOf(a) : j <= i

\* C34: the stored balance of every account that has a ledger row equals the
\* balanceAfter of the row written last for it.
C34_BalanceIsLastRow ==
  \A a \in 1..Len(account) :
    LedgerOf(a) # {} => account[a].balance = transaction[LastRowOf(a)].balanceAfter

\* ------------------------------------------- a transfer and a load, concurrent
\* The balance account a has in the initial state.
StartBalance(a) == IF a \in {1, 4} THEN InitBalance ELSE 0

\* C35 (as claimed): when a transfer debiting an account and a load-money
\* credit to the same account are the only money movements and both have
\* succeeded, the stored balance is the initial balance plus the loaded
\* amount minus the transferred amount.
C35_NeitherUpdateLost ==
  \A kt \in Calls, kl \in Calls :
    (/\ Len(outcome) = 2
     /\ outcome[kt].kind = "transfer" /\ outcome[kt].result = "ok"
     /\ outcome[kl].kind = "load" /\ outcome[kl].result = "ok"
     /\ outcome[kt].acct = outcome[kl].acct)
    => account[outcome[kt].acct].balance
         = StartBalance(outcome[kt].acct) + outcome[kl].amount - outcome[kt].amount

\* ------------------------------------------- the statuses of a pending transfer
\* A transfer from its creation in 'account_selection' to its execution.
NextStatus ==
  \/ SelectionRequest(1, 1, "name", "A3")
  \/ \E p \in Procs, k \in 0..1 : handleAccountSelection(p, 1, k)
  \/ \E p \in Procs, n \in 0..2 : continueTransferAfterAccountSelection(p, n)
  \/ \E p \in Procs, m \in {r \in Replies : r.number \in {1111, 9999}} :
       handleBeneficiarySelection(p, 1, m)
  \/ \E id \in PendingIds : ExpireTimer(id)
  \/ \E p \in Procs, id \in PendingIds : VerifyStart(p, id, 1)
  \/ \E p \in Procs : VerifyPin(p, TRUE)
  \/ \E p \in Procs : VerifyDone(p)
  \/ \E p \in Procs : Reply(p)
  \/ \E p \in Procs : ItAccount(p)
  \/ \E p \in Procs : ItRecipientAccount(p)
  \/ \E p \in Procs : ItRecipientCustomer(p)
  \/ \E p \in Procs : ItCommit(p)

SpecStatus == Init /\ [][NextStatus]_vars

\* The place of a status in the order of the claim.
StatusRank(st) ==
  CASE st = "account_selection" -> 1
    [] st = "processing" -> 2
    [] st = "beneficiary_selection" -> 3
    [] st = "pending_pin" -> 4
    [] OTHER -> 0

\* C36: the status of a transfer pending transaction in the store never moves
\* back in the order account_selection, processing, beneficiary_selection,
\* pending_pin, and an entry in 'pending_pin' changes only by being deleted.
C36_StatusMovesForward ==
  [][\A id \in PendingIds :
       LET t == pendingTransactions[id]
           u == pendingTransactions'[id]
       IN (t # NoTxn /\ t.type = "transfer" /\ u # NoTxn)
          => /\ StatusRank(u.status) >= StatusRank(t.status)
             /\ t.status = "pending_pin" => u = t]_vars

\* An entry that was created in 'account_selection' has been bound to the
\* candidate a reply selected and waits for the PIN.
C36_Witness ==
  \E p \in Procs :
    /\ pc[p] = "reply" /\ loc[p].msg # NoMessage /\ loc[p].result = "verify_pin"
    /\ pendingTransactions[loc[p].txn] # NoTxn
    /\ pendingTransactions[loc[p].txn].status = "pending_pin"
    /\ pendingTransactions[loc[p].txn].input = "name"
    /\ pendingTransactions[loc[p].txn].accountId # 0

\* ------------------------------------- what the confirmed transfer executes
\* Two transfers of one customer, of any amounts, each through account
\* selection and the choice among two candidates, confirmed in any order.
NextFrame ==
  \/ \E amt \in Amounts : SelectionRequest(1, amt, "name", "A3")
  \/ \E p \in Procs, k \in 0..1 : handleAccountSelection(p, 1, k)
  \/ \E p \in Procs, n \in 1..2 : continueTransferAfterAccountSelection(p, n)
  \/ \E p \in Procs, m \in {r \in Replies : r.endings # {} /\ ~r.noisy} :
       handleBeneficiarySelection(p, 1, m)
  \/ \E p \in Procs, id \in PendingIds : VerifyStart(p, id, 1)
  \/ \E p \in Procs : VerifyPin(p, TRUE)
  \/ \E p \in Procs : VerifyDone(p)
  \/ \E p \in Procs : Reply(p)
  \/ \E p \in Procs : ItAccount(p)
  \/ \E p \in Procs : ItRecipientAccount(p)
  \/ \E p \in Procs : ItRecipientCustomer(p)
  \/ \E p \in Procs : ItSysCustomer(p)
  \/ \E p \in Procs : ItExtAccount(p)
  \/ \E p \in Procs : ItCommit(p)

SpecFrame == Init /\ [][NextFrame]_vars

\* The pcs of the executor of a transfer.
TransferPcs == {"it_account", "it_rcptAccount", "it_rcptCustomer", "it_placeholder",
                "it_sysCustomer", "it_extAccount", "it_commit"}

\* Entry object id has reached 'pending_pin'.
Announced(id) == object[id] # NoTxn /\ object[id].status = "pending_pin"

\* The executor of a transfer works with the values of its entry, and so do
\* the rows it has written.
ExecutesTheAnnounced ==
  /\ \A p \in Procs :
       (pc[p] \in TransferPcs /\ Announced(loc[p].txn)) =>
         /\ loc[p].amount = object[loc[p].txn].amount
         /\ loc[p].acct = object[loc[p].txn].accountId
         /\ loc[p].rcpt = object[loc[p].txn].rcpt
  /\ \A k \in TransferCalls :
       (outcome[k].txn # 0 /\ Announced(outcome[k].txn)) =>
         /\ \A i \in RowsOf(k) : transaction[i].amount = object[outcome[k].txn].amount
         /\ \A i \in DebitsOf(k) :
              transaction[i].accountId = object[outcome[k].txn].accountId
         /\ \A i \in CreditsOf(k) :
              account[transaction[i].accountId].accountNumber = object[outcome[k].txn].rcpt

\* C37: the transfer verify-transaction executes uses the amount, the source
\* account and the recipient the pending transaction had when it entered
\* 'pending_pin'; from then on no step changes them, whatever messages the
\* customer sends and whatever other pending transactions they have.
C37_ExecutesWhatWasAnnounced ==
  /\ []ExecutesTheAnnounced
  /\ [][\A id \in PendingIds : Announced(id) => object'[id] = object[id]]_vars

\* Two transfers of different amounts were both waiting for the PIN, the one
\* to the external candidate has been executed while the other still waits.
C37_Witness ==
  \E k \in TransferCalls, id \in PendingIds :
    /\ outcome[k].result = "ok" /\ outcome[k].txn # id
    /\ DebitsOf(k) # {} /\ CreditsOf(k) # {}
    /\ object[outcome[k].txn].rcpt = "X1"
    /\ pendingTransactions[id] # NoTxn /\ pendingTransactions[id].status = "pending_pin"
    /\ pendingTransactions[id].amount # object[outcome[k].txn].amount

\* ------------------------------------------------ one selection at a time
\* The transfers of customer c that wait for a reply.
AwaitingReply(c) ==
  {id \in PendingIds :
     /\ pendingTransactions[id] # NoTxn
     /\ pendingTransactions[id].customerId = c
     /\ pendingTransactions[id].type = "transfer"
     /\ pendingTransactions[id].status \in {"account_selection", "beneficiary_selection"}}

\* C38 (as claimed): a customer never has two transfer pending transactions
\* in 'account_selection' or 'beneficiary_selection' at once.
C38_OneSelectionPerCustomer ==
  \A c \in 1..Len(customer) : Cardinality(AwaitingReply(c)) <= 1

\* ---------------------------------------- the PIN before the transfer is ready
\* The statuses of a transfer that does not yet wait for the PIN.
EarlyStatuses == {"account_selection", "processing", "beneficiary_selection"}

\* Handler p passes the PIN comparison in this step while its entry is not
\* yet 'pending_pin'.
EarlyPinVerified(p) ==
  /\ pc[p] = "pin" /\ pc'[p] \notin {"pin", "reply"}
  /\ object[loc[p].txn].type = "transfer"
  /\ object[loc[p].txn].status \in EarlyStatuses

\* C39: a verify-transaction request whose correct PIN is accepted while the
\* pending transfer is in 'account_selection', 'processing' or
\* 'beneficiary_selection' writes no ledger row and changes no balance: the
\* executor fails at once, and no call made for an entry that has not
\* reached 'pending_pin' has a row.
C39_NoExecutionBeforePendingPin ==
  /\ [](\A k \in Calls :
          (outcome[k].txn # 0 /\ object[outcome[k].txn].status \in EarlyStatuses)
          => RowsOf(k) = {})
  /\ [][\A p \in Procs :
          EarlyPinVerified(p) =>
            /\ pc'[p] = "v_done" /\ loc'[p].result = "error"
            /\ UNCHANGED <<account, transaction>>]_vars

\* The PIN has been accepted for a transfer that still offers two candidates;
\* the request has failed and the ledger is empty.
C39_Witness ==
  \E p \in Procs :
    /\ pc[p] = "v_done" /\ loc[p].result = "error"
    /\ object[loc[p].txn].status = "beneficiary_selection"
    /\ transaction = << >>
    /\ \A a \in 1..Len(account) : account[a].balance = StartBalance(a)

====
